---- MODULE Spec2Model ----
(***************************************************************************)
(* A model of pgillich/errfmt: the logrus formatters (Text, Syslog), the   *)
(* hooks that extract error details and call stacks, the field sorter and  *)
(* the RFC7807 problem builder.                                            *)
(*                                                                         *)
(* Strings that the code inspects byte by byte or compares (field names)   *)
(* are sequences of byte values; "fields." + key is sequence               *)
(* concatenation and key1 < key2 is the bytewise order of Go strings.      *)
(***************************************************************************)
EXTENDS Integers, Sequences, FiniteSets, TLC

VARIABLES
    pc,          \* position of the modelled call
    logger,      \* [Formatter, Flags, CallStackSkipLast, MsgID, Level]: the logger
    chain,       \* the error value of the scenario: wrap layers, outermost first
    given,       \* the ad hoc fields the caller passed to WithFields
    entry,       \* logrus.Entry: [Data, Message, Level, HasCaller]
    formatted,   \* what Format produced
    problem,     \* what BuildHTTPProblem produced
    handler,     \* the wrapped HTTP handler: what it does and returns
    response,    \* the http.ResponseWriter: its header and the calls made on it
    logged,      \* the calls of entry.Log: [level, Data, emitted]
    items,       \* the key slice handed to the sorting function
    items0,      \* the key slice as it was before the first sorting call
    fieldOrder,  \* the weight map of the sorting function
    legacyItems, \* the key slice as the former SortingFuncDecorator leaves it
    name,        \* a raw field name
    sdKey,       \* the key handed to JSONDataElement.Append
    deParams,    \* JSONDataElement.params
    requests,    \* the http.Request of every request served through the shared logger
    hooks,       \* logger.Hooks of the shared logger: the requests of its RequestInfoHooks
    reqPc,       \* position of every request's handler
    reqLog       \* the entries the shared logger emitted: [req, Data]

vars == <<pc, logger, chain, given, entry, formatted, problem, handler, response, logged,
          items, items0, fieldOrder, legacyItems, name, sdKey, deParams,
          requests, hooks, reqPc, reqLog>>

----------------------------------------------------------------------------
(* Field names *)

FieldKeyLevel == <<108, 101, 118, 101, 108>>  \* "level"
FieldKeyTime == <<116, 105, 109, 101>>  \* "time"
FieldKeyFunc == <<102, 117, 110, 99>>  \* "func"
FieldKeyMsg == <<109, 115, 103>>  \* "msg"
FieldKeyFile == <<102, 105, 108, 101>>  \* "file"
ErrorKey == <<101, 114, 114, 111, 114>>  \* "error"
FieldKeyLogrusError == <<108, 111, 103, 114, 117, 115, 95, 101, 114, 114, 111, 114>>  \* "logrus_error"
KeyCallStack == <<99, 97, 108, 108, 115, 116, 97, 99, 107>>  \* "callstack"
KeyHandlerFunc == <<104, 97, 110, 100, 108, 101, 114, 70, 117, 110, 99>>  \* "handlerFunc"
FieldsPrefix == <<102, 105, 101, 108, 100, 115, 46>>  \* "fields."
KeyPrefixRequest == <<114, 101, 113, 95>>  \* "req_"

\* names used as details and ad hoc fields in the scenarios
KeyA == <<97>>  \* "a"
KeyB == <<98>>  \* "b"
KeyZ == <<90>>  \* "Z"
KeyK2 == <<75, 50, 32, 119, 105, 116, 104, 32, 115, 112, 97, 99, 101>>  \* "K2 with space"
KeyHidden == <<104, 105, 100, 100, 101, 110>>  \* "hidden"

DisabledFieldWeight == -100

Min(a, b) == IF a < b THEN a ELSE b

\* Go's s < t on strings: bytewise lexicographic order
StrLess(s, t) ==
    \E i \in 1..(Min(Len(s), Len(t)) + 1) :
        /\ \A k \in 1..(i - 1) : s[k] = t[k]
        /\ \/ i > Len(s) /\ i <= Len(t)
           \/ i <= Len(s) /\ i <= Len(t) /\ s[i] < t[i]

----------------------------------------------------------------------------
(* Maps (Go map[string]T) are functions on a finite set of names *)

EmptyMap == [k \in {} |-> 0]

Has(m, k) == k \in DOMAIN m

Put(m, k, v) == [x \in (DOMAIN m) \cup {k} |-> IF x = k THEN v ELSE m[x]]

Delete(m, k) == [x \in (DOMAIN m) \ {k} |-> m[x]]

RECURSIVE Perms(_)
\* every order in which `for k := range m` can visit the set S
Perms(S) ==
    IF S = {} THEN {<<>>}
    ELSE UNION {{<<x>> \o p : p \in Perms(S \ {x})} : x \in S}

RECURSIVE SeqsUpTo(_, _)
SeqsUpTo(S, n) ==
    IF n = 0 THEN {<<>>}
    ELSE LET shorter == SeqsUpTo(S, n - 1)
         IN  shorter \cup {Append(s, x) : s \in {t \in shorter : Len(t) = n - 1}, x \in S}

----------------------------------------------------------------------------
(* SD-NAME sanitization, formatter_syslog.go *)

IsDisallowedByteNoBracket(b) ==
    b < 33 \/ b > 126 \/ b = 61 \/ b = 32 \/ b = 34

\* the condition of FixStructuredDataName under which a byte is replaced
IsDisallowedByte(b) ==
    b < 33 \/ b > 126 \/ b = 61 \/ b = 32 \/ b = 93 \/ b = 34

Underscore == 95

FixOnlyFirstByte(n) ==
    [i \in 1..Len(n) |->
        IF IsDisallowedByte(n[i]) /\ (\A k \in 1..(i - 1) : ~IsDisallowedByte(n[k]))
        THEN Underscore ELSE n[i]]

FixStructuredDataName(n) ==
    [i \in 1..Len(n) |-> IF IsDisallowedByte(n[i]) THEN Underscore ELSE n[i]]

----------------------------------------------------------------------------
(* Field Policy: the sorting function, formatter_text.go *)

\* EntryFieldSorter.weight, on the name instead of its index
weight(order, key) == IF Has(order, key) THEN order[key] ELSE 0

LessNoTieBreak(order, a, b) == weight(order, a) > weight(order, b)

\* EntryFieldSorter.Less, on the names at the two indexes
Less(order, a, b) ==
    IF weight(order, a) = weight(order, b)
    THEN StrLess(a, b)
    ELSE weight(order, a) > weight(order, b)

\* EntryFieldSorter.Swap
Swap(s, i, j) == [s EXCEPT ![i] = s[j], ![j] = s[i]]

RECURSIVE InsertDown(_, _, _)
\* inner loop of sort.insertionSort: for j := i; j > a && Less(j, j-1); j--
InsertDown(order, s, j) ==
    IF j > 1 /\ Less(order, s[j], s[j - 1])
    THEN InsertDown(order, Swap(s, j, j - 1), j - 1)
    ELSE s

RECURSIVE insertionSort(_, _, _)
\* outer loop of sort.insertionSort: for i := a + 1; i < b; i++
insertionSort(order, s, i) ==
    IF i > Len(s) THEN s
    ELSE insertionSort(order, InsertDown(order, s, i), i + 1)

ShellGap == 6

RECURSIVE ShellPass(_, _, _)
\* the gap-6 pass sort.quickSort makes before insertionSort
ShellPass(order, s, i) ==
    IF i > Len(s) THEN s
    ELSE ShellPass(order,
                   IF Less(order, s[i], s[i - ShellGap]) THEN Swap(s, i, i - ShellGap) ELSE s,
                   i + 1)

\* sort.Sort on a slice of at most 12 elements
SortSort(order, s) ==
    IF Len(s) > 1
    THEN insertionSort(order, ShellPass(order, s, ShellGap + 1), 2)
    ELSE s

SortingFuncNoSort(order, keys) == keys

\* the function SortingFuncDecorator(fieldOrder) returns, applied to keys
SortingFuncDecorator(order, keys) == SortSort(order, keys)

RECURSIVE Compact(_, _, _, _)
\* loop of the former dropDisabled: kept names are copied to the front of
\* the caller's array, whose length stays what it was
Compact(order, s, i, n) ==
    IF i > Len(s) THEN s
    ELSE IF ~Has(order, s[i]) \/ order[s[i]] > DisabledFieldWeight
         THEN Compact(order, [s EXCEPT ![n + 1] = s[i]], i + 1, n + 1)
         ELSE Compact(order, s, i + 1, n)

\* the former SortingFuncDecorator: dropDisabled on a value receiver, then sort
SortingFuncDecoratorLegacy(order, keys) == SortSort(order, Compact(order, keys, 1, 0))

AdvancedFieldOrderCallStackFirst ==
    (FieldKeyLevel :> 100) @@ (FieldKeyTime :> 90) @@ (KeyHandlerFunc :> 81) @@
    (FieldKeyFunc :> 80) @@ (ErrorKey :> 70) @@ (FieldKeyMsg :> 60) @@
    (FieldKeyLogrusError :> 50) @@ (FieldKeyFile :> 40) @@ (KeyCallStack :> 10)

\* AdvancedFieldOrder
AdvancedFieldOrder ==
    (FieldKeyLevel :> 100) @@ (FieldKeyTime :> 90) @@ (KeyHandlerFunc :> 81) @@
    (FieldKeyFunc :> 80) @@ (ErrorKey :> 70) @@ (FieldKeyMsg :> 60) @@
    (FieldKeyLogrusError :> 50) @@ (FieldKeyFile :> 40) @@ (KeyCallStack :> -10)

----------------------------------------------------------------------------
(* Field values.  Every value is a record of the same shape: kind is the   *)
(* dynamic Go type class, val the text of a scalar, lines a []string.      *)

StringValue(s) == [kind |-> "string", val |-> s, lines |-> <<>>]
IntValue(s) == [kind |-> "int", val |-> s, lines |-> <<>>]
BoolValue(s) == [kind |-> "bool", val |-> s, lines |-> <<>>]
StructValue(s) == [kind |-> "struct", val |-> s, lines |-> <<>>]
LevelValue(s) == [kind |-> "level", val |-> s, lines |-> <<>>]
LinesValue(l) == [kind |-> "lines", val |-> "", lines |-> l]
\* a channel: a value encoding/json has no encoding for
ChanValue(s) == [kind |-> "chan", val |-> s, lines |-> <<>>]
\* the error of the scenario (the wrap chain itself is the variable chain)
ErrorValue == [kind |-> "error", val |-> "err", lines |-> <<>>]

\* JSONMarshal(value, "", false): the JSON text, by its form and content
JSONMarshal(v) ==
    [form |-> CASE v.kind \in {"string", "level"} -> "string"
                [] v.kind = "int" -> "number"
                [] v.kind = "bool" -> "bool"
                [] v.kind = "lines" -> "array"
                [] OTHER -> "object",
     val |-> v.val,
     lines |-> v.lines,
     dquote |-> v.kind \in {"string", "level"}]

\* the error JSONMarshal returns: "" is nil
JSONMarshalError(v) ==
    IF v.kind = "chan" THEN "json: unsupported type: chan int" ELSE ""

\* err.Error() put in the place of the JSON text
ErrorText(msg) == [form |-> "text", val |-> msg, lines |-> <<>>, dquote |-> FALSE]

DataElementAppendTrimAlways(params, n, value, trimJSONDquote) ==
    LET jsonValue == IF JSONMarshalError(value) # ""
                     THEN ErrorText(JSONMarshalError(value))
                     ELSE JSONMarshal(value)
    IN  Append(params, [Name |-> FixStructuredDataName(n),
                        Value |-> [jsonValue EXCEPT !.dquote = FALSE]])

\* JSONDataElement.Append
DataElementAppend(params, n, value, trimJSONDquote) ==
    LET jsonValue == IF JSONMarshalError(value) # ""
                     THEN ErrorText(JSONMarshalError(value))
                     ELSE JSONMarshal(value)
        trimmed == IF trimJSONDquote /\ jsonValue.dquote
                   THEN [jsonValue EXCEPT !.dquote = FALSE]
                   ELSE jsonValue
    IN  Append(params, [Name |-> FixStructuredDataName(n), Value |-> trimmed])

----------------------------------------------------------------------------
(* Values of the variables a specification does not use *)

NoLogger ==
    [Formatter |-> "none", Flags |-> 0, CallStackSkipLast |-> 0, MsgID |-> "", Level |-> "trace"]
NoError == <<>>
NoEntry == [Data |-> EmptyMap, Message |-> "", Level |-> "panic", HasCaller |-> FALSE]
NoOutput ==
    [kind |-> "none", fields |-> <<>>, MsgID |-> "", elements |-> <<>>, Msg |-> "",
     console |-> <<>>, text |-> <<>>]
NoProblem ==
    [status |-> 0, title |-> "", detail |-> StringValue(""), details |-> EmptyMap,
     callstack |-> <<>>]

NoHandler == [jsonObj |-> "", status |-> 0, err |-> FALSE, contentType |-> "", levelByStatus |-> <<>>]
NoResponse == [header |-> "", calls |-> <<>>]

HTTPIdle ==
    /\ handler = NoHandler
    /\ response = NoResponse
    /\ logged = <<>>

LogIdle ==
    /\ HTTPIdle
    /\ logger = NoLogger
    /\ chain = NoError
    /\ given = EmptyMap
    /\ entry = NoEntry
    /\ formatted = NoOutput
    /\ problem = NoProblem

SortIdle ==
    /\ items = <<>>
    /\ items0 = <<>>
    /\ fieldOrder = EmptyMap
    /\ legacyItems = <<>>

NameIdle ==
    /\ name = <<>>
    /\ sdKey = <<>>
    /\ deParams = <<>>

ReqIdle ==
    /\ requests = <<>>
    /\ hooks = <<>>
    /\ reqPc = <<>>
    /\ reqLog = <<>>

httpVars == <<handler, response, logged>>
logVars == <<logger, chain, given, entry, formatted, problem, httpVars>>
sortVars == <<items, items0, fieldOrder, legacyItems>>
nameVars == <<name, sdKey, deParams>>
reqVars == <<requests, hooks, reqPc, reqLog>>

----------------------------------------------------------------------------
(* SpecName: field names on their way into a structured-data element *)

MaxNameLen == 3

\* bytes on both sides of every comparison FixStructuredDataName makes
ByteSamples == {0, 32, 33, 34, 61, 93, 95, 97, 126, 127, 255}

InitName ==
    /\ pc = "name"
    /\ name \in SeqsUpTo(ByteSamples, MaxNameLen)
    /\ sdKey = name
    /\ deParams = <<>>
    /\ LogIdle
    /\ SortIdle
    /\ ReqIdle

\* appendRequestInfo, default branch: a request header becomes the field
\* FixStructuredDataName("req_" + field)
AppendRequestInfoHeader ==
    /\ pc = "name"
    /\ sdKey' = FixStructuredDataName(KeyPrefixRequest \o name)
    /\ pc' = "key"
    /\ UNCHANGED <<name, deParams>>
    /\ UNCHANGED logVars
    /\ UNCHANGED sortVars
    /\ UNCHANGED reqVars

\* detailList.Append(key, value, trimJSONDquote)
JSONAppend ==
    /\ pc \in {"name", "key"}
    /\ \E trimJSONDquote \in BOOLEAN :
          deParams' = DataElementAppend(deParams, sdKey, StringValue("V"), trimJSONDquote)
    /\ pc' = IF pc = "name" THEN "appended" ELSE "appendedKey"
    /\ UNCHANGED <<name, sdKey>>
    /\ UNCHANGED logVars
    /\ UNCHANGED sortVars
    /\ UNCHANGED reqVars

NextName == AppendRequestInfoHeader \/ JSONAppend

SpecName == InitName /\ [][NextName]_vars

----------------------------------------------------------------------------
(* SpecSort: the sorting function on key lists *)

MaxKeys == 4

KeyAB == <<97, 98>>  \* "ab"
SortKeys == {KeyA, KeyAB, KeyB, KeyZ}
WeightKeys == {KeyA, KeyZ}
SortWeights == {DisabledFieldWeight, 0, 2}

WeightMaps == UNION {[S -> SortWeights] : S \in SUBSET WeightKeys}

InitSort ==
    /\ pc = "keys"
    /\ items \in SeqsUpTo(SortKeys, MaxKeys)
    /\ items0 = items
    /\ fieldOrder \in WeightMaps
    /\ legacyItems = <<>>
    /\ LogIdle
    /\ NameIdle
    /\ ReqIdle

\* sorter(keys), also on keys that are already sorted
Sort ==
    /\ pc \in {"keys", "sorted"}
    /\ items' = SortingFuncDecorator(fieldOrder, items)
    /\ pc' = IF pc = "keys" THEN "sorted" ELSE "resorted"
    /\ UNCHANGED <<items0, fieldOrder, legacyItems>>
    /\ UNCHANGED logVars
    /\ UNCHANGED nameVars
    /\ UNCHANGED reqVars

\* sorter(keys) as the former SortingFuncDecorator did it
SortLegacy ==
    /\ pc = "keys"
    /\ legacyItems' = SortingFuncDecoratorLegacy(fieldOrder, items)
    /\ pc' = "legacy"
    /\ UNCHANGED <<items, items0, fieldOrder>>
    /\ UNCHANGED logVars
    /\ UNCHANGED nameVars
    /\ UNCHANGED reqVars

NextSort == Sort \/ SortLegacy

SpecSort == InitSort /\ [][NextSort]_vars

----------------------------------------------------------------------------
(* Flags, errorformatter.go *)

FlagExtractDetails == 1
FlagCallStackInFields == 2
FlagCallStackOnConsole == 4
FlagCallStackInHTTPProblem == 8
FlagPrintStructFieldNames == 16
FlagTrimJSONDquote == 32

\* (flags & flag) > 0, for a flag or an or-ed group of flags
HasFlag(flags, flag) ==
    \E bit \in {FlagExtractDetails, FlagCallStackInFields, FlagCallStackOnConsole,
                FlagCallStackInHTTPProblem, FlagPrintStructFieldNames, FlagTrimJSONDquote} :
        /\ (flag \div bit) % 2 = 1
        /\ (flags \div bit) % 2 = 1

----------------------------------------------------------------------------
(* The attached error.  chain is the error value as a sequence of wrap     *)
(* layers, outermost first; NoError is the nil error.  A layer is          *)
(* [details, tracer, stack]: the key-value pairs its Details() returns,    *)
(* whether it has a StackTrace() method, and the frames that returns,      *)
(* innermost call first.                                                   *)

\* package paths registered by RegisterSkipPackageFromStackTrace
skipPackageNameForCaller == {"github.com/pgillich"}

\* TrimModuleNamePrefix, on a function name split at the end of a path prefix
TrimModuleNamePrefix(fn) ==
    IF fn.prefix \in skipPackageNameForCaller THEN [fn EXCEPT !.prefix = ""] ELSE fn

\* buildCallStackLines: one line "function() path:line" per frame, in order
buildCallStackLines(stack) ==
    [i \in 1..Len(stack) |->
        [function |-> TrimModuleNamePrefix(stack[i].function),
         path |-> stack[i].path,
         line |-> stack[i].line]]

\* GetError
GetError(data) ==
    IF Has(data, ErrorKey) /\ data[ErrorKey].kind = "error" THEN chain ELSE NoError

RECURSIVE GetDetailsInnerLast(_, _, _)
GetDetailsInnerLast(err, i, details) ==
    IF i > Len(err) THEN details
    ELSE GetDetailsInnerLast(err, i + 1, details \o err[i].details)

RECURSIVE GetDetailsFrom(_, _, _)
\* errors.GetDetails: UnwrapEach visits the layers outermost first and puts
\* the details of each in front of those collected so far
GetDetailsFrom(err, i, details) ==
    IF i > Len(err) THEN details
    ELSE GetDetailsFrom(err, i + 1, err[i].details \o details)

GetDetails(err) == GetDetailsFrom(err, 1, <<>>)

RECURSIVE ToMapFrom(_, _, _)
\* keyval.ToMap: the pairs are written into the map in list order
ToMapFrom(kvs, i, m) ==
    IF i > Len(kvs) THEN m
    ELSE ToMapFrom(kvs, i + 1, Put(m, kvs[i].key, kvs[i].value))

ToMap(kvs) == ToMapFrom(kvs, 1, EmptyMap)

\* errors.As(err, &stackTracer): the outermost layer with a stack trace
TracerLayers(err) == {i \in 1..Len(err) : err[i].tracer}

\* GetCallStack(entry)
GetCallStack(data) ==
    LET err == GetError(data)
    IN  IF err # NoError /\ TracerLayers(err) # {}
        THEN buildCallStackLines(
                 err[CHOOSE i \in TracerLayers(err) : \A k \in TracerLayers(err) : i <= k].stack)
        ELSE <<>>

TruncateFromFront(callStackLines, skipLast) ==
    IF Len(callStackLines) > skipLast
    THEN SubSeq(callStackLines, skipLast + 1, Len(callStackLines))
    ELSE <<>>

\* callStackLines[:len(callStackLines)-skipLast] under len(...) > skipLast,
\* the empty list otherwise
Truncate(callStackLines, skipLast) ==
    IF Len(callStackLines) > skipLast
    THEN SubSeq(callStackLines, 1, Len(callStackLines) - skipLast)
    ELSE <<>>

\* AdvancedFormatter.GetCallStack
FormatterGetCallStack(f, data) ==
    IF HasFlag(f.Flags, FlagCallStackInFields + FlagCallStackOnConsole + FlagCallStackInHTTPProblem)
    THEN Truncate(GetCallStack(data), f.CallStackSkipLast)
    ELSE <<>>

\* AppendDetailsToEntry: entry.Data after the hook
AppendDetailsToEntry(data) ==
    LET err == GetError(data)
        details == ToMap(GetDetails(err))
    IN  IF err # NoError
        THEN [k \in DOMAIN data \cup DOMAIN details |->
                 IF k \in DOMAIN data THEN data[k] ELSE details[k]]
        ELSE data

AppendCallStackAlways(callStackSkipLast, data) ==
    Put(data, KeyCallStack, LinesValue(Truncate(GetCallStack(data), callStackSkipLast)))

\* the hook AppendCallStackToEntry(callStackSkipLast): entry.Data after it
AppendCallStackToEntry(callStackSkipLast, data) ==
    LET callStackLines == GetCallStack(data)
    IN  IF Len(callStackLines) > callStackSkipLast
        THEN Put(data, KeyCallStack, LinesValue(Truncate(callStackLines, callStackSkipLast)))
        ELSE data

\* fmt.Sprintf("%+v", value)
SprintfPlusVKeepsKind(v) == [v EXCEPT !.val = "%+v " \o v.val]

SprintfPlusV(v) ==
    [kind |-> "string",
     val |-> IF v.kind = "struct" THEN "%+v " \o v.val ELSE v.val,
     lines |-> v.lines]

\* IsNumeric(val.Kind())
IsNumeric(v) == v.kind \in {"int", "level"}

\* err.Error() of an error value
ErrorString(v) == [kind |-> "string", val |-> "Error: " \o v.val, lines |-> <<>>]

\* RenderErrorInEntry: entry.Data after it
RenderErrorInEntry(data) ==
    [k \in DOMAIN data |-> IF data[k].kind = "error" THEN ErrorString(data[k]) ELSE data[k]]

RenderStructFieldNamesErrorsToo(data) ==
    [k \in DOMAIN data |->
        IF data[k].kind # "string" /\ ~IsNumeric(data[k])
        THEN SprintfPlusV(data[k])
        ELSE data[k]]

\* RenderStructFieldNames: entry.Data after the hook
RenderStructFieldNames(data) ==
    [k \in DOMAIN data |->
        IF data[k].kind # "error" /\ data[k].kind # "string" /\ ~IsNumeric(data[k])
        THEN SprintfPlusV(data[k])
        ELSE data[k]]

\* AdvancedFormatter.RenderFieldValues: data after it
RenderFieldValues(f, data) ==
    [k \in DOMAIN data |->
        IF data[k].kind = "error" THEN ErrorString(data[k])
        ELSE IF HasFlag(f.Flags, FlagPrintStructFieldNames)
                /\ data[k].kind # "string" /\ ~IsNumeric(data[k])
             THEN SprintfPlusV(data[k])
             ELSE data[k]]

\* prefixFieldClashes(data, key): data after it
prefixFieldClashes(data, key) ==
    IF Has(data, key)
    THEN Delete(Put(data, FieldsPrefix \o key, data[key]), key)
    ELSE data

RECURSIVE PrefixAll(_, _, _)
\* for _, key := range fixedFields { prefixFieldClashes(data, key) }
PrefixAll(data, fixedFields, i) ==
    IF i > Len(fixedFields) THEN data
    ELSE PrefixAll(prefixFieldClashes(data, fixedFields[i]), fixedFields, i + 1)

GetClashingFieldsSyslog ==
    <<FieldKeyLevel, FieldKeyTime, FieldKeyFunc, FieldKeyMsg, FieldKeyFile>>

GetClashingFieldsHTTP ==
    <<FieldKeyTime, FieldKeyFunc, FieldKeyMsg, FieldKeyFile, KeyCallStack>>

\* ModuleCallerPrettyfier(entry.Caller): the values of func and file
CallerFunc == StringValue("caller.Func")
CallerFile == StringValue("caller.go:1")

----------------------------------------------------------------------------
(* Formatters *)

\* logrus prefixFieldClashes(data, f.FieldMap, entry.HasCaller())
LogrusPrefixFieldClashes(data, hasCaller) ==
    PrefixAll(data,
              <<FieldKeyTime, FieldKeyMsg, FieldKeyLevel, FieldKeyLogrusError>>
                  \o (IF hasCaller THEN <<FieldKeyFunc, FieldKeyFile>> ELSE <<>>),
              1)

EntryTime == StringValue("entry.Time")

\* logrus TextFormatter.Format with SortingFunc set and colors disabled:
\* the key=value pairs of the line, in order.  keys is the order in which
\* the range over the data map yields its keys.
TextFormatterFormat(e, keys) ==
    LET data == LogrusPrefixFieldClashes(e.Data, e.HasCaller)
        fixedKeys == <<FieldKeyTime, FieldKeyLevel>>
                         \o (IF e.Message # "" THEN <<FieldKeyMsg>> ELSE <<>>)
                         \o (IF e.HasCaller THEN <<FieldKeyFunc, FieldKeyFile>> ELSE <<>>)
                         \o keys
        sorted == SortingFuncDecorator(AdvancedFieldOrder, fixedKeys)
        valueOf(key) ==
            CASE key = FieldKeyTime -> EntryTime
              [] key = FieldKeyLevel -> LevelValue(e.Level)
              [] key = FieldKeyMsg -> StringValue(e.Message)
              [] key = FieldKeyFunc /\ e.HasCaller -> CallerFunc
              [] key = FieldKeyFile /\ e.HasCaller -> CallerFile
              [] OTHER -> data[key]
    IN  [i \in 1..Len(sorted) |-> [Name |-> sorted[i], Value |-> valueOf(sorted[i])]]

\* the keys of entry.Data as logrus TextFormatter.Format ranges over them
\* encoding/json writes the members of a map sorted by key
RECURSIVE SortedKeys(_)
SortedKeys(keys) ==
    IF keys = {} THEN <<>>
    ELSE LET first == CHOOSE k \in keys : \A other \in keys \ {k} : StrLess(k, other)
         IN  <<first>> \o SortedKeys(keys \ {first})

\* logrus JSONFormatter.Format: the error of the encoder, "" for nil
JSONFormatterError(e) ==
    IF \E k \in DOMAIN e.Data : JSONMarshalError(e.Data[k]) # ""
    THEN "failed to marshal fields to JSON"
    ELSE ""

\* logrus JSONFormatter.Format: the members of the object written, none when
\* the encoder fails
JSONFormatterFormat(e) ==
    LET prefixed == LogrusPrefixFieldClashes(e.Data, e.HasCaller)
        fixed == (FieldKeyTime :> EntryTime) @@ (FieldKeyMsg :> StringValue(e.Message))
                     @@ (FieldKeyLevel :> LevelValue(e.Level))
                     @@ (IF e.HasCaller
                         THEN (FieldKeyFunc :> CallerFunc) @@ (FieldKeyFile :> CallerFile)
                         ELSE EmptyMap)
        data == fixed @@ prefixed
        sorted == SortedKeys(DOMAIN data)
    IN  IF JSONFormatterError(e) # "" THEN <<>>
        ELSE [i \in 1..Len(sorted) |-> [Name |-> sorted[i], Value |-> data[sorted[i]]]]

TextDataKeys(e) == DOMAIN LogrusPrefixFieldClashes(e.Data, e.HasCaller)

\* the bytes of an output, as far as their layout goes: the formatted record
\* ("fields"), a newline ("nl"), a tab ("tab") or the text of one frame
Token(kind) == [kind |-> kind, frame |-> <<>>]
FrameToken(line) == [kind |-> "frame", frame |-> <<line>>]

\* what logrus TextFormatter.Format and JSONFormatter.Format return: the
\* record followed by a newline
LogrusLine == <<Token("fields"), Token("nl")>>

\* MessageString(message): header, structured data and message, no newline
MessageString == <<Token("fields")>>

\* strings.Join(callStackLines, "\n\t")
RECURSIVE JoinLines(_, _)
JoinLines(callStackLines, i) ==
    IF i > Len(callStackLines) THEN <<>>
    ELSE (IF i > 1 THEN <<Token("nl"), Token("tab")>> ELSE <<>>)
             \o <<FrameToken(callStackLines[i])>> \o JoinLines(callStackLines, i + 1)

AppendCallStackDoubleNewline(textPart, callStackLines) ==
    Append(textPart, Token("nl")) \o <<Token("tab")>> \o JoinLines(callStackLines, 1)
        \o <<Token("nl")>>

\* AppendCallStack(textPart, callStackLines)
AppendCallStack(textPart, callStackLines) ==
    LET ended == IF Len(textPart) > 0 /\ textPart[Len(textPart)] # Token("nl")
                 THEN Append(textPart, Token("nl"))
                 ELSE textPart
    IN  ended \o <<Token("tab")>> \o JoinLines(callStackLines, 1) \o <<Token("nl")>>

\* the end of Format: the text with the console block if a frame remains
WithConsoleBlock(textPart, consoleCallStackLines, skipLast) ==
    IF Len(consoleCallStackLines) > skipLast
    THEN AppendCallStack(textPart, Truncate(consoleCallStackLines, skipLast))
    ELSE textPart

\* the block AppendCallStack adds to the text: the lines after truncation
ConsoleBlock(consoleCallStackLines, skipLast) ==
    IF Len(consoleCallStackLines) > skipLast
    THEN Truncate(consoleCallStackLines, skipLast)
    ELSE <<>>

\* the package-level PrepareFields(entry, fixedFields): entry.Data after it
PrepareFields(e, fixedFields) ==
    LET prefixed == PrefixAll(e.Data, fixedFields, 1)
        withCaller == IF e.HasCaller
                      THEN Put(Put(prefixed, FieldKeyFunc, CallerFunc), FieldKeyFile, CallerFile)
                      ELSE prefixed
    IN  Put(withCaller, FieldKeyLevel, LevelValue(e.Level))

RECURSIVE AppendAll(_, _, _, _, _)
\* for _, key := range detailKeys { detailList.Append(key, entry.Data[key], trim) }
AppendAll(params, keys, data, trim, i) ==
    IF i > Len(keys) THEN params
    ELSE AppendAll(DataElementAppend(params, keys[i], data[keys[i]], trim), keys, data, trim, i + 1)

StructuredIDDetails == "details"
StructuredIDCallStack == "calls"

SyslogMessageCallStackInDetails(f, e, data, keys, consoleCallStackLines) ==
    LET trimJSONDquote == HasFlag(f.Flags, FlagTrimJSONDquote)
        allKeys == keys \o (IF Has(data, KeyCallStack) THEN <<KeyCallStack>> ELSE <<>>)
        detailKeys == SortingFuncDecorator(AdvancedFieldOrder, allKeys)
    IN  [kind |-> "syslog",
         fields |-> <<>>,
         MsgID |-> IF f.MsgID # "" THEN f.MsgID ELSE "DETAILS_MSG",
         elements |-> <<[id |-> StructuredIDDetails,
                         params |-> AppendAll(<<>>, detailKeys, data, trimJSONDquote, 1)]>>,
         Msg |-> e.Message,
         console |-> ConsoleBlock(consoleCallStackLines, f.CallStackSkipLast),
         text |-> WithConsoleBlock(MessageString, consoleCallStackLines,
                                   f.CallStackSkipLast)]

SyslogMessageMsgIDOnly(f, e, data, keys, consoleCallStackLines) ==
    LET trimJSONDquote == HasFlag(f.Flags, FlagTrimJSONDquote)
        hasKeyCallStack == Has(data, KeyCallStack)
        detailKeys == SortingFuncDecorator(AdvancedFieldOrder, keys)
        detailList == [id |-> StructuredIDDetails,
                       params |-> AppendAll(<<>>, detailKeys, data, trimJSONDquote, 1)]
        callsList == [id |-> StructuredIDCallStack,
                      params |-> DataElementAppend(<<>>, KeyCallStack,
                                                   data[KeyCallStack], trimJSONDquote)]
    IN  [kind |-> "syslog",
         fields |-> <<>>,
         MsgID |-> IF f.MsgID # "" THEN f.MsgID ELSE "DETAILS_MSG",
         elements |-> IF hasKeyCallStack THEN <<detailList, callsList>> ELSE <<detailList>>,
         Msg |-> e.Message,
         console |-> ConsoleBlock(consoleCallStackLines, f.CallStackSkipLast),
         text |-> WithConsoleBlock(MessageString, consoleCallStackLines,
                                   f.CallStackSkipLast)]

\* AdvancedSyslogFormatter.Format: the message, given entry.Data as
\* PrepareFields and RenderErrorInEntry left it and the order in which the
\* range over entry.Data yielded the keys other than callstack
SyslogMessage(f, e, data, keys, consoleCallStackLines) ==
    LET trimJSONDquote == HasFlag(f.Flags, FlagTrimJSONDquote)
        hasKeyCallStack == Has(data, KeyCallStack)
        detailKeys == SortingFuncDecorator(AdvancedFieldOrder, keys)
        detailList == [id |-> StructuredIDDetails,
                       params |-> AppendAll(<<>>, detailKeys, data, trimJSONDquote, 1)]
        callsList == [id |-> StructuredIDCallStack,
                      params |-> DataElementAppend(<<>>, KeyCallStack,
                                                   data[KeyCallStack], trimJSONDquote)]
    IN  [kind |-> "syslog",
         fields |-> <<>>,
         MsgID |-> IF f.MsgID # "" THEN f.MsgID
                   ELSE IF hasKeyCallStack THEN "DETAILS_CALLS_MSG" ELSE "DETAILS_MSG",
         elements |-> IF hasKeyCallStack THEN <<detailList, callsList>> ELSE <<detailList>>,
         Msg |-> e.Message,
         console |-> ConsoleBlock(consoleCallStackLines, f.CallStackSkipLast),
         text |-> WithConsoleBlock(MessageString, consoleCallStackLines,
                                   f.CallStackSkipLast)]

\* AdvancedFormatter.MergeDetailsToFields
MergeDetailsToFields(f, data) ==
    LET err == GetError(data)
        details == ToMap(GetDetails(err))
    IN  IF HasFlag(f.Flags, FlagExtractDetails) /\ err # NoError
        THEN [k \in DOMAIN data \cup DOMAIN details |->
                 IF k \in DOMAIN details THEN details[k] ELSE data[k]]
        ELSE data

\* AdvancedFormatter.PrepareFields: the new map it returns
FormatterPrepareFields(f, e, fixedFields) ==
    LET merged == MergeDetailsToFields(f, e.Data)
        prefixed == PrefixAll(merged, fixedFields, 1)
        callStackLines == FormatterGetCallStack(f, e.Data)
        withStack == IF HasFlag(f.Flags, FlagCallStackInFields)
                     THEN Put(prefixed, KeyCallStack, LinesValue(callStackLines))
                     ELSE prefixed
        rendered == RenderFieldValues(f, withStack)
        withCaller == IF e.HasCaller
                      THEN Put(Put(rendered, FieldKeyFunc, CallerFunc), FieldKeyFile, CallerFile)
                      ELSE rendered
    IN  IF e.Level # "panic"
        THEN Put(withCaller, FieldKeyLevel, LevelValue(e.Level))
        ELSE withCaller

\* http.StatusText
StatusText(statusCode) ==
    CASE statusCode = 200 -> "OK"
      [] statusCode = 302 -> "Found"
      [] statusCode = 404 -> "Not Found"
      [] statusCode = 412 -> "Precondition Failed"
      [] statusCode = 500 -> "Internal Server Error"
      [] OTHER -> ""

\* BuildHTTPProblem
BuildHTTPProblemSkipFailed(f, statusCode, e) ==
    LET data == Put(FormatterPrepareFields(f, e, GetClashingFieldsHTTP),
                    FieldKeyTime, EntryTime)
        callStackLines == FormatterGetCallStack(f, e.Data)
    IN  [status |-> statusCode,
         title |-> StatusText(statusCode),
         detail |-> IF GetError(e.Data) # NoError THEN ErrorString(ErrorValue)
                    ELSE IF Has(data, FieldKeyMsg) THEN data[FieldKeyMsg]
                    ELSE StringValue(""),
         details |-> [k \in {x \in DOMAIN data : JSONMarshalError(data[x]) = ""} |->
                         JSONMarshal(data[k])],
         callstack |-> IF HasFlag(f.Flags, FlagCallStackInHTTPProblem)
                       THEN callStackLines ELSE <<>>]

BuildHTTPProblem(f, statusCode, e) ==
    LET data == Put(FormatterPrepareFields(f, e, GetClashingFieldsHTTP),
                    FieldKeyTime, EntryTime)
        callStackLines == FormatterGetCallStack(f, e.Data)
    IN  [status |-> statusCode,
         title |-> StatusText(statusCode),
         detail |-> IF GetError(e.Data) # NoError THEN ErrorString(ErrorValue)
                    ELSE IF Has(data, FieldKeyMsg) THEN data[FieldKeyMsg]
                    ELSE StringValue(""),
         details |-> [k \in DOMAIN data |->
                         IF JSONMarshalError(data[k]) # ""
                         THEN ErrorText(JSONMarshalError(data[k]))
                         ELSE JSONMarshal(data[k])],
         callstack |-> IF HasFlag(f.Flags, FlagCallStackInHTTPProblem)
                       THEN callStackLines ELSE <<>>]

----------------------------------------------------------------------------
(* Spec: one entry of a Text or Syslog logger is built, handed to the      *)
(* problem builder and logged (hooks in registration order, then Format)   *)

MaxFrames == 3
MaxSkipLast == 3

Layer(details, tracer, stack) == [details |-> details, tracer |-> tracer, stack |-> stack]

PlainLayer == Layer(<<>>, FALSE, <<>>)

\* the i-th frame of a captured stack, counted from the innermost call
FrameAt(i) ==
    [function |-> [prefix |-> IF i % 2 = 1 THEN "github.com/pgillich" ELSE "runtime",
                   name |-> "pkg.Func"],
     path |-> "file.go",
     line |-> i]

StackOf(n) == [i \in 1..n |-> FrameAt(i)]

Detail(k, v) == [key |-> k, value |-> StringValue(v)]

LogScenario(formatters, flagSet, skips, msgIDs, chains, fieldSets, callers, levels, messages) ==
    /\ pc = "entry"
    /\ logger \in [Formatter : formatters, Flags : flagSet, CallStackSkipLast : skips,
                   MsgID : msgIDs, Level : {"trace"}]
    /\ chain \in chains
    /\ given \in fieldSets
    /\ \E c \in callers, l \in levels, m \in messages :
          entry = [Data |-> IF chain # NoError THEN Put(given, ErrorKey, ErrorValue) ELSE given,
                   Message |-> m, Level |-> l, HasCaller |-> c]
    /\ formatted = NoOutput
    /\ problem = NoProblem
    /\ HTTPIdle
    /\ SortIdle
    /\ NameIdle
    /\ ReqIdle

Formatters == {"text", "json", "syslog"}

\* errors with and without a captured stack, of every length, under every
\* combination of the call stack flags and every skipLast
StackChains ==
    {NoError, <<PlainLayer>>}
        \cup {<<PlainLayer, Layer(<<>>, TRUE, StackOf(n))>> : n \in 0..MaxFrames}
        \cup {<<Layer(<<>>, TRUE, StackOf(n)), Layer(<<>>, TRUE, <<FrameAt(MaxFrames + 1)>>)>> :
                 n \in 0..MaxFrames}

InitStack ==
    LogScenario(Formatters, 0..15, 0..MaxSkipLast, {""}, StackChains,
                {EmptyMap, ErrorKey :> StringValue("not an error")},
                {TRUE}, {"error"}, {"USER MSG"})

\* two wrap layers with details under the keys a and b
DetailPairs == {Detail(k, v) : k \in {KeyA, KeyB}, v \in {"0", "1", "2"}}

DetailChains ==
    {<<Layer(outer, FALSE, <<>>), Layer(inner, TRUE, StackOf(1))>> :
        outer \in SeqsUpTo(DetailPairs, 1), inner \in SeqsUpTo(DetailPairs, 2)}

InitDetails ==
    LogScenario(Formatters, {0, 1, 3}, {0}, {""}, DetailChains,
                {EmptyMap, KeyA :> StringValue("user")},
                {FALSE}, {"error"}, {"USER MSG"})

\* ad hoc fields and details named like the fields of the record
ReservedNames ==
    {FieldKeyLevel, FieldKeyTime, FieldKeyFunc, FieldKeyMsg, FieldKeyFile, ErrorKey, KeyCallStack}

ClashChains ==
    {NoError, <<Layer(<<>>, TRUE, StackOf(1))>>}
        \cup {<<Layer(<<Detail(r, "detail")>>, TRUE, StackOf(1))>> : r \in ReservedNames}

ClashFields ==
    {EmptyMap} \cup {r :> StringValue("user") : r \in ReservedNames}
        \cup {(FieldKeyMsg :> StringValue("user"))
                  @@ ((FieldsPrefix \o FieldKeyMsg) :> StringValue("prefixed"))}

InitClash ==
    LogScenario(Formatters, {1, 3}, {0}, {""}, ClashChains, ClashFields,
                BOOLEAN, {"error", "panic"}, {"USER MSG"})

\* ad hoc fields with and without a weight in AdvancedFieldOrder, next to details
OrderFields ==
    {EmptyMap} \cup {k :> StringValue("user") : k \in {KeyHandlerFunc, FieldKeyLogrusError, KeyZ}}

OrderChains ==
    {NoError}
        \cup {<<Layer(d, TRUE, StackOf(1))>> :
                 d \in {<<>>, <<Detail(KeyB, "1")>>, <<Detail(KeyB, "1"), Detail(KeyA, "2")>>}}

InitOrder ==
    LogScenario(Formatters, 0..3, {0}, {""}, OrderChains, OrderFields,
                BOOLEAN, {"error"}, {"", "USER MSG"})

\* syslog loggers with and without a configured MSGID
MsgIDChains == {NoError} \cup {<<Layer(<<>>, TRUE, StackOf(n))>> : n \in 0..2}

InitMsgID ==
    LogScenario({"syslog"}, {0, 2, 6}, {0, 1}, {"", "MYMSGID"}, MsgIDChains,
                {EmptyMap, KeyCallStack :> StringValue("user")},
                {FALSE}, {"error"}, {"USER MSG"})

\* fields of every kind of value, under the rendering flags
KeyK1 == <<75, 49>>  \* "K1"
KeyN == <<110>>  \* "n"
KeyT == <<116>>  \* "t"
KeyS == <<115>>  \* "s"
KeyC == <<99>>  \* "c"

ValueFields ==
    {(KeyK1 :> StringValue("V1")) @@ (KeyK2 :> StringValue("V2 value")),
     KeyN :> IntValue("42"),
     KeyT :> BoolValue("true"),
     KeyS :> StructValue("{x:1}"),
     KeyC :> ChanValue("0xc000")}

ValueFlags ==
    {a + b + c : a \in {0, FlagCallStackInFields}, b \in {0, FlagPrintStructFieldNames},
                 c \in {0, FlagTrimJSONDquote}}

InitValues ==
    LogScenario(Formatters, ValueFlags, {0}, {""},
                {NoError, <<Layer(<<>>, TRUE, StackOf(1))>>}, ValueFields,
                {FALSE}, {"error"}, {"USER MSG"})

Init == InitStack \/ InitDetails \/ InitClash \/ InitOrder \/ InitMsgID \/ InitValues

StatusSamples == {404, 500}

\* BuildHTTPProblem(statusCode, entry) on the entry before it is logged
BuildProblem ==
    /\ pc = "entry"
    /\ problem = NoProblem
    /\ \E statusCode \in StatusSamples :
          problem' = BuildHTTPProblem(logger, statusCode, entry)
    /\ UNCHANGED <<pc, logger, chain, given, entry, formatted>>
    /\ UNCHANGED httpVars
    /\ UNCHANGED sortVars
    /\ UNCHANGED nameVars
    /\ UNCHANGED reqVars

\* the hook AppendDetailsToEntry, which New*Logger registers under FlagExtractDetails
FireAppendDetails ==
    /\ pc = "entry"
    /\ entry' = IF HasFlag(logger.Flags, FlagExtractDetails)
                THEN [entry EXCEPT !.Data = AppendDetailsToEntry(entry.Data)]
                ELSE entry
    /\ pc' = "details"
    /\ UNCHANGED <<logger, chain, given, formatted, problem>>
    /\ UNCHANGED httpVars
    /\ UNCHANGED sortVars
    /\ UNCHANGED nameVars
    /\ UNCHANGED reqVars

\* the hook AppendCallStackToEntry(callStackSkipLast), registered under
\* FlagCallStackInFields
FireAppendCallStack ==
    /\ pc = "details"
    /\ entry' = IF HasFlag(logger.Flags, FlagCallStackInFields)
                THEN [entry EXCEPT !.Data =
                         AppendCallStackToEntry(logger.CallStackSkipLast, entry.Data)]
                ELSE entry
    /\ pc' = "callstack"
    /\ UNCHANGED <<logger, chain, given, formatted, problem>>
    /\ UNCHANGED httpVars
    /\ UNCHANGED sortVars
    /\ UNCHANGED nameVars
    /\ UNCHANGED reqVars

\* the hook RenderStructFieldNames, registered under FlagPrintStructFieldNames
FireRenderStructFieldNames ==
    /\ pc = "callstack"
    /\ entry' = IF HasFlag(logger.Flags, FlagPrintStructFieldNames)
                THEN [entry EXCEPT !.Data = RenderStructFieldNames(entry.Data)]
                ELSE entry
    /\ pc' = "hooked"
    /\ UNCHANGED <<logger, chain, given, formatted, problem>>
    /\ UNCHANGED httpVars
    /\ UNCHANGED sortVars
    /\ UNCHANGED nameVars
    /\ UNCHANGED reqVars

\* AdvancedTextFormatter.Format
FormatText ==
    /\ pc = "hooked"
    /\ logger.Formatter = "text"
    /\ LET consoleCallStackLines ==
               IF HasFlag(logger.Flags, FlagCallStackOnConsole)
               THEN GetCallStack(entry.Data) ELSE <<>>
           rendered == [entry EXCEPT !.Data = RenderErrorInEntry(entry.Data)]
       IN  /\ entry' = rendered
           /\ \E keys \in Perms(TextDataKeys(rendered)) :
                 formatted' = [kind |-> "text",
                               fields |-> TextFormatterFormat(rendered, keys),
                               MsgID |-> "",
                               elements |-> <<>>,
                               Msg |-> "",
                               console |-> ConsoleBlock(consoleCallStackLines,
                                                        logger.CallStackSkipLast),
                               text |-> WithConsoleBlock(LogrusLine, consoleCallStackLines,
                                                         logger.CallStackSkipLast)]
    /\ pc' = "formatted"
    /\ UNCHANGED <<logger, chain, given, problem>>
    /\ UNCHANGED httpVars
    /\ UNCHANGED sortVars
    /\ UNCHANGED nameVars
    /\ UNCHANGED reqVars

\* AdvancedJSONFormatter.Format
FormatJSON ==
    /\ pc = "hooked"
    /\ logger.Formatter = "json"
    /\ LET consoleCallStackLines ==
               IF HasFlag(logger.Flags, FlagCallStackOnConsole)
               THEN GetCallStack(entry.Data) ELSE <<>>
           rendered == [entry EXCEPT !.Data = RenderErrorInEntry(entry.Data)]
       IN  /\ entry' = rendered
           /\ formatted' = [kind |-> "json",
                            fields |-> JSONFormatterFormat(rendered),
                            MsgID |-> "",
                            elements |-> <<>>,
                            Msg |-> JSONFormatterError(rendered),
                            console |-> IF JSONFormatterError(rendered) = ""
                                        THEN ConsoleBlock(consoleCallStackLines,
                                                          logger.CallStackSkipLast)
                                        ELSE <<>>,
                            text |-> IF JSONFormatterError(rendered) = ""
                                     THEN WithConsoleBlock(LogrusLine, consoleCallStackLines,
                                                           logger.CallStackSkipLast)
                                     ELSE <<>>]
    /\ pc' = "formatted"
    /\ UNCHANGED <<logger, chain, given, problem>>
    /\ UNCHANGED httpVars
    /\ UNCHANGED sortVars
    /\ UNCHANGED nameVars
    /\ UNCHANGED reqVars

\* AdvancedSyslogFormatter.Format
FormatSyslog ==
    /\ pc = "hooked"
    /\ logger.Formatter = "syslog"
    /\ LET consoleCallStackLines ==
               IF HasFlag(logger.Flags, FlagCallStackOnConsole)
               THEN GetCallStack(entry.Data) ELSE <<>>
           data == RenderErrorInEntry(PrepareFields(entry, GetClashingFieldsSyslog))
       IN  /\ entry' = [entry EXCEPT !.Data = data]
           /\ \E keys \in Perms(DOMAIN data \ {KeyCallStack}) :
                 formatted' = SyslogMessage(logger, entry, data, keys, consoleCallStackLines)
    /\ pc' = "formatted"
    /\ UNCHANGED <<logger, chain, given, problem>>
    /\ UNCHANGED httpVars
    /\ UNCHANGED sortVars
    /\ UNCHANGED nameVars
    /\ UNCHANGED reqVars

Next ==
    \/ BuildProblem
    \/ FireAppendDetails
    \/ FireAppendCallStack
    \/ FireRenderStructFieldNames
    \/ FormatText
    \/ FormatJSON
    \/ FormatSyslog

Spec == Init /\ [][Next]_vars

----------------------------------------------------------------------------
(* The HTTP problem response, errorformatter.go *)

KeyHTTPProblemError ==
    <<104, 116, 116, 112, 112, 114, 111, 98, 108, 101, 109, 95, 101, 114, 114, 111, 114>>
KeyHTTPWriteError ==
    <<104, 116, 116, 112, 119, 114, 105, 116, 101, 95, 101, 114, 114, 111, 114>>
ContentTypeProblem == "application/problem+json"
ContentTypeJSON == "application/json; charset=utf-8"

\* logrus levels: a level is enabled if the logger's level is not below it
LevelRank(l) ==
    CASE l = "panic" -> 0
      [] l = "fatal" -> 1
      [] l = "error" -> 2
      [] l = "warn" -> 3
      [] l = "info" -> 4
      [] l = "debug" -> 5
      [] OTHER -> 6

IsLevelEnabled(lg, level) == LevelRank(lg.Level) >= LevelRank(level)

\* DefaultLevelByStatus
DefaultLevelByStatus == (2 :> "debug") @@ (4 :> "warn") @@ (5 :> "error")

\* HTTPErrorHandler.GetLogLevelByStatus
GetLogLevelByStatus(levelByStatus, status) ==
    IF (status \div 100) \in DOMAIN levelByStatus
    THEN levelByStatus[status \div 100]
    ELSE "trace"

\* a call on the http.ResponseWriter, as the writer records it
WriterCall(op, status, text, body, err) ==
    [op |-> op, status |-> status, text |-> text, body |-> body, err |-> err]

\* w.Header().Set("Content-Type", value)
HeaderSet(w, value) ==
    [header |-> value, calls |-> Append(w.calls, WriterCall("Header.Set", 0, value, NoProblem, ""))]

\* w.Header().Add("Content-Type", value) on a header without Content-Type
HeaderAdd(w, value) ==
    [header |-> value, calls |-> Append(w.calls, WriterCall("Header.Add", 0, value, NoProblem, ""))]

\* w.WriteHeader(statusCode)
WriteHeader(w, statusCode) ==
    [w EXCEPT !.calls = Append(@, WriterCall("WriteHeader", statusCode, "", NoProblem, ""))]

\* w.Write(bytes): bytes is a problem body or the JSON text of the handler,
\* err the error the writer returns
Write(w, text, body, err) ==
    [w EXCEPT !.calls = Append(@, WriterCall("Write", 0, text, body, err))]

\* NewHTTPProblem
NewHTTPProblem(status, title, message, details, callStack) ==
    [status |-> status, title |-> title, detail |-> message, details |-> details,
     callstack |-> callStack]

RenderHTTPProblemKeepStatus(f, statusCode, e, marshalErr) ==
    LET httpProblem == BuildHTTPProblem(f, statusCode, e)
    IN  IF marshalErr # ""
        THEN [resp |-> NewHTTPProblem(statusCode, StatusText(statusCode),
                                      StringValue(marshalErr), EmptyMap, <<>>),
              err |-> marshalErr]
        ELSE [resp |-> httpProblem, err |-> ""]

\* RenderHTTPProblem: the problem the returned bytes encode and the error
\* returned.  marshalErr is the error of JSONMarshal(httpProblem), "" for nil.
RenderHTTPProblem(f, statusCode, e, marshalErr) ==
    LET httpProblem == BuildHTTPProblem(f, statusCode, e)
    IN  IF marshalErr # ""
        THEN [resp |-> NewHTTPProblem(500, StatusText(500), StringValue(marshalErr),
                                      EmptyMap, <<>>),
              err |-> marshalErr]
        ELSE [resp |-> httpProblem, err |-> ""]

MergeDetailsCopiesOnlyMerged(f, data) ==
    HasFlag(f.Flags, FlagExtractDetails) /\ GetError(data) # NoError

\* MergeDetailsToFields "always returns a new instance": whether the map it
\* returns, which PrepareFields and BuildHTTPProblem then write to, is a new
\* map and not entry.Data itself
MergeDetailsCopies(f, data) ==
    IF HasFlag(f.Flags, FlagExtractDetails) /\ GetError(data) # NoError
    THEN TRUE  \* entry.WithFields(...).Data
    ELSE TRUE  \* data := log.Fields{} and the copy loop

\* entry.Data after BuildHTTPProblem: touched only if the prepared map is entry.Data
DataAfterBuild(f, e) ==
    IF MergeDetailsCopies(f, e.Data) THEN e.Data
    ELSE Put(FormatterPrepareFields(f, e, GetClashingFieldsHTTP), FieldKeyTime, EntryTime)

\* ExtractHTTPProblem: the body and entry.Data after it
ExtractHTTPProblem(f, statusCode, e, marshalErr) ==
    LET Extracted(rendered, data) ==
            [respBody |-> rendered.resp,
             data |-> IF rendered.err # ""
                      THEN Put(data, KeyHTTPProblemError, StringValue(rendered.err))
                      ELSE data]
    IN  Extracted(RenderHTTPProblem(f, statusCode, e, marshalErr), DataAfterBuild(f, e))

\* GetAdvancedFormatter(entry.Logger.Formatter): the AdvancedFormatter part of
\* the three formatters of this package, nil for any other formatter
NilFormatter == [NoLogger EXCEPT !.Formatter = "nil"]

GetAdvancedFormatter(lg) ==
    IF lg.Formatter \in {"text", "json", "syslog"} THEN lg ELSE NilFormatter

\* BuildHTTPProblem reads f.Flags: a nil f is a nil pointer dereference
NilDereference(f) == GetAdvancedFormatter(f) = NilFormatter

WriteHTTPProblemDropWriteError(w, f, statusCode, e, marshalErr, writeErr) ==
    LET w1 == HeaderSet(w, ContentTypeProblem)
        w2 == WriteHeader(w1, statusCode)
        Written(extracted) ==
            [w |-> Write(w2, "", extracted.respBody, writeErr),
             entry |-> [e EXCEPT !.Data = extracted.data],
             panic |-> FALSE]
    IN  IF NilDereference(f) THEN [w |-> w2, entry |-> e, panic |-> TRUE]
        ELSE Written(ExtractHTTPProblem(GetAdvancedFormatter(f), statusCode, e, marshalErr))

\* WriteHTTPProblem: the writer and the entry after it, or the writer at the
\* panic.  f is entry.Logger, writeErr the error of w.Write, "" for nil.
WriteHTTPProblem(w, f, statusCode, e, marshalErr, writeErr) ==
    LET w1 == HeaderSet(w, ContentTypeProblem)
        w2 == WriteHeader(w1, statusCode)
        Written(extracted) ==
            [w |-> Write(w2, "", extracted.respBody, writeErr),
             entry |-> [e EXCEPT !.Data = IF writeErr # ""
                                            THEN Put(extracted.data, KeyHTTPWriteError,
                                                     StringValue(writeErr))
                                            ELSE extracted.data],
             panic |-> FALSE]
    IN  IF NilDereference(f) THEN [w |-> w2, entry |-> e, panic |-> TRUE]
        ELSE Written(ExtractHTTPProblem(GetAdvancedFormatter(f), statusCode, e, marshalErr))

\* entry.Log(level)
EntryLog(lg, e, level) == [level |-> level, Data |-> e.Data, emitted |-> IsLevelEnabled(lg, level)]

\* errors the environment can return: of JSONMarshal(httpProblem) and of w.Write
MarshalErrors == {"", "json: error calling MarshalJSON"}
WriteErrors == {"", "write: broken pipe"}

\* json.MarshalIndent(jsonObj): the error text, "" for nil
MarshalIndentError(jsonObj) == IF jsonObj = "chan" THEN "json: unsupported type: chan int" ELSE ""

\* logger.WithField(KeyHandlerFunc, handlerName)
WithField(key, value) ==
    [Data |-> key :> value, Message |-> "", Level |-> "panic", HasCaller |-> FALSE]

\* entry.WithError(err)
WithError(e) == [e EXCEPT !.Data = Put(@, ErrorKey, ErrorValue)]

HTTPStatuses == {200, 302, 404, 500}
\* the formatters of this package and logrus' own TextFormatter
HTTPFormatters == Formatters \cup {"logrus"}
HTTPFlags == {0, FlagCallStackInFields, FlagCallStackInHTTPProblem, FlagPrintStructFieldNames,
              FlagExtractDetails + FlagCallStackInFields + FlagCallStackInHTTPProblem}
HTTPErrors == {<<Layer(<<Detail(KeyA, "D")>>, TRUE, StackOf(2))>>}
HTTPFields ==
    {EmptyMap,
     (KeyK1 :> StringValue("V1")) @@ (KeyC :> ChanValue("0xc000")),
     (FieldKeyMsg :> StringValue("user")) @@ (KeyN :> IntValue("42"))}

\* WriteHTTPProblem is called with an entry the caller has built
InitWriteHTTPProblem ==
    /\ pc = "call"
    /\ logger \in [Formatter : HTTPFormatters, Flags : HTTPFlags, CallStackSkipLast : {0, 1},
                   MsgID : {""}, Level : {"trace"}]
    /\ chain \in {NoError} \cup HTTPErrors
    /\ given \in HTTPFields
    /\ \E m \in {"", "not found"} :
          entry = [Data |-> IF chain # NoError THEN Put(given, ErrorKey, ErrorValue) ELSE given,
                   Message |-> m, Level |-> "panic", HasCaller |-> FALSE]
    /\ \E statusCode \in {404, 500} : handler = [NoHandler EXCEPT !.status = statusCode]
    /\ response = NoResponse
    /\ logged = <<>>
    /\ formatted = NoOutput
    /\ problem = NoProblem
    /\ SortIdle
    /\ NameIdle
    /\ ReqIdle

\* a request arrives at the handler HTTPHandlerWithError returned; handler
\* holds what the wrapped function returns and the Content-Type it has set
InitHandler ==
    /\ pc = "request"
    /\ logger \in [Formatter : {"text", "logrus"}, Flags : {0, FlagCallStackInHTTPProblem},
                   CallStackSkipLast : {0}, MsgID : {""}, Level : {"trace", "info", "fatal"}]
    /\ handler \in [jsonObj : {"obj", "chan"}, status : HTTPStatuses, err : BOOLEAN,
                    contentType : {"", "text/plain"},
                    levelByStatus : {DefaultLevelByStatus, EmptyMap}]
    /\ chain \in IF handler.err THEN HTTPErrors
                 ELSE IF MarshalIndentError(handler.jsonObj) # "" THEN {<<PlainLayer>>}
                 ELSE {NoError}
    /\ given = EmptyMap
    /\ entry = NoEntry
    /\ response = [NoResponse EXCEPT !.header = handler.contentType]
    /\ logged = <<>>
    /\ formatted = NoOutput
    /\ problem = NoProblem
    /\ SortIdle
    /\ NameIdle
    /\ ReqIdle

InitHTTP == InitWriteHTTPProblem \/ InitHandler

\* WriteHTTPProblem(w, statusCode, entry)
CallWriteHTTPProblem ==
    /\ pc = "call"
    /\ \E marshalErr \in MarshalErrors, writeErr \in WriteErrors :
          \E written \in {WriteHTTPProblem(response, logger, handler.status, entry,
                                           marshalErr, writeErr)} :
              /\ response' = written.w
              /\ entry' = written.entry
              /\ problem' = written.w.calls[Len(written.w.calls)].body
              /\ pc' = IF written.panic THEN "panic" ELSE "written"
    /\ UNCHANGED <<logger, chain, given, formatted, handler, logged>>
    /\ UNCHANGED sortVars
    /\ UNCHANGED nameVars
    /\ UNCHANGED reqVars

\* the success path of the handler: the object is marshalled and written
ServeJSON(logLevel, e, writeErr) ==
    LET w1 == IF response.header = "" THEN HeaderAdd(response, ContentTypeJSON)
              ELSE response
        failed == writeErr # ""
    IN  /\ response' = Write(WriteHeader(w1, handler.status), handler.jsonObj, NoProblem,
                             writeErr)
        /\ problem' = NoProblem
        /\ \E logEntry \in {IF failed
                            THEN [e EXCEPT !.Data = Put(@, KeyHTTPWriteError,
                                                        StringValue(writeErr))]
                            ELSE e} :
              /\ entry' = logEntry
              /\ logged' = Append(logged,
                                  EntryLog(logger, logEntry,
                                           IF failed /\ LevelRank(logLevel) > LevelRank("error")
                                           THEN "error" ELSE logLevel))
        /\ pc' = "served"

\* the error path of the handler: the error is attached and the problem written
ServeProblem(logLevel, e, marshalErr, writeErr) ==
    \E written \in {WriteHTTPProblem(response, logger, handler.status, WithError(e),
                                     marshalErr, writeErr)} :
        /\ response' = written.w
        /\ problem' = written.w.calls[Len(written.w.calls)].body
        /\ entry' = written.entry
        /\ logged' = IF written.panic THEN logged
                      ELSE Append(logged, EntryLog(logger, written.entry, logLevel))
        /\ pc' = IF written.panic THEN "panic" ELSE "served"

\* the http.HandlerFunc HTTPHandlerWithError returns
ServeHTTP ==
    /\ pc = "request"
    /\ \E marshalErr \in MarshalErrors, writeErr \in WriteErrors :
          LET logLevel == GetLogLevelByStatus(handler.levelByStatus, handler.status)
              entry0 == WithField(KeyHandlerFunc, StringValue("handler"))
          IN  IF ~handler.err /\ MarshalIndentError(handler.jsonObj) = ""
              THEN marshalErr = "" /\ ServeJSON(logLevel, entry0, writeErr)
              ELSE ServeProblem(logLevel, entry0, marshalErr, writeErr)
    /\ UNCHANGED <<logger, chain, given, formatted, handler>>
    /\ UNCHANGED sortVars
    /\ UNCHANGED nameVars
    /\ UNCHANGED reqVars

NextHTTP ==
    \/ CallWriteHTTPProblem
    \/ ServeHTTP

SpecHTTP == InitHTTP /\ [][NextHTTP]_vars

----------------------------------------------------------------------------
(* SpecReq: requests served through one shared logger whose handlers call
   AddHookRequestInfo *)

MaxRequests == 2

FieldMethod == <<109, 101, 116, 104, 111, 100>>  \* "method"
FieldHost == <<104, 111, 115, 116>>  \* "host"
HeaderFrom == <<70, 114, 111, 109>>  \* "From"
KeyField == <<70, 73, 69, 76, 68>>  \* "FIELD"

\* the request fields the handlers select: the fields of
\* DefaultSelectedRequestInfo that the modelled requests differ in
DefaultSelectedRequestInfo == <<FieldMethod, FieldHost, HeaderFrom>>

\* the requests a client may send; From is the value of the From header,
\* "" when the request has none
Requests ==
    [Method : {"GET", "POST"}, Host : {"example.com"},
     From : {"", "u1@example.com", "u2@example.com"}]

RECURSIVE appendRequestInfo(_, _, _)
\* appendRequestInfo(entry, request, infoFields), on entry.Data
appendRequestInfo(data, request, infoFields) ==
    IF infoFields = <<>> THEN data
    ELSE LET field == Head(infoFields)
             set == IF field = FieldMethod
                    THEN Put(data, KeyPrefixRequest \o field, StringValue(request.Method))
                    ELSE IF field = FieldHost
                    THEN Put(data, KeyPrefixRequest \o field, StringValue(request.Host))
                    ELSE IF request.From # ""
                    THEN Put(data, FixStructuredDataName(KeyPrefixRequest \o field),
                             StringValue(request.From))
                    ELSE data
         IN  appendRequestInfo(set, request, Tail(infoFields))

RECURSIVE FireHooks(_, _)
\* logrus LevelHooks.Fire: every registered hook fires, in the order of registration
FireHooks(hs, data) ==
    IF hs = <<>> THEN data
    ELSE FireHooks(Tail(hs),
                   appendRequestInfo(data, requests[Head(hs)], DefaultSelectedRequestInfo))

InitReq ==
    /\ pc = "serving"
    /\ requests \in [1..MaxRequests -> Requests]
    /\ hooks = <<>>
    /\ reqPc = [r \in 1..MaxRequests |-> "arrived"]
    /\ reqLog = <<>>
    /\ LogIdle
    /\ SortIdle
    /\ NameIdle

\* AddHookRequestInfo(logger, r, DefaultSelectedRequestInfo()), the first
\* statement of the handler of request r
AddHookRequestInfo(r) ==
    /\ reqPc[r] = "arrived"
    /\ hooks' = Append(hooks, r)
    /\ reqPc' = [reqPc EXCEPT ![r] = "hooked"]
    /\ UNCHANGED <<pc, requests, reqLog>>
    /\ UNCHANGED logVars
    /\ UNCHANGED sortVars
    /\ UNCHANGED nameVars

\* logger.WithField("FIELD", "VALUE").Info("Message") and the response, the
\* rest of the handler of request r
HandlerLog(r) ==
    /\ reqPc[r] = "hooked"
    /\ reqLog' = Append(reqLog,
                        [req |-> r,
                         Data |-> FireHooks(hooks, Put(EmptyMap, KeyField,
                                                       StringValue("VALUE")))])
    /\ reqPc' = [reqPc EXCEPT ![r] = "done"]
    /\ UNCHANGED <<pc, requests, hooks>>
    /\ UNCHANGED logVars
    /\ UNCHANGED sortVars
    /\ UNCHANGED nameVars

NextReq == \E r \in 1..MaxRequests : AddHookRequestInfo(r) \/ HandlerLog(r)

SpecReq == InitReq /\ [][NextReq]_vars

----------------------------------------------------------------------------
(* Properties of the sorting function *)

Range(s) == {s[i] : i \in 1..Len(s)}

Count(s, x) == Cardinality({i \in 1..Len(s) : s[i] = x})

IsPermutationOf(s, t) ==
    /\ Len(s) = Len(t)
    /\ \A x \in Range(s) \cup Range(t) : Count(s, x) = Count(t, x)

\* the weight the field order policy gives a name
PolicyWeight(order, k) == IF k \in DOMAIN order THEN order[k] ELSE 0

\* a is emitted before b: heavier first, equal weights by ascending name
EmittedBefore(order, a, b) ==
    \/ PolicyWeight(order, a) > PolicyWeight(order, b)
    \/ PolicyWeight(order, a) = PolicyWeight(order, b) /\ StrLess(a, b)

InPolicyOrder(order, s) ==
    \A i, j \in 1..Len(s) : i < j => (s[i] = s[j] \/ EmittedBefore(order, s[i], s[j]))

\* the ways to reorder a list of n keys
Reorderings == [n \in 0..MaxKeys |-> Perms(1..n)]

\* C2: the sorting function leaves the key list as the permutation of its
\* input that is ordered by descending weight (absent keys weigh 0) and,
\* among equal weights, by ascending name; sorting the result again, or
\* sorting any other ordering of the same keys, gives the same list.
C2_SortedTotalOrder ==
    pc \in {"sorted", "resorted"} =>
        /\ IsPermutationOf(items, items0)
        /\ InPolicyOrder(fieldOrder, items)
        /\ \A p \in Reorderings[Len(items0)] :
              SortingFuncDecorator(fieldOrder, [i \in 1..Len(items0) |-> items0[p[i]]]) = items

\* a list that sorting has to rearrange, with a tie between weighted names
C2_Witness ==
    /\ pc = "resorted"
    /\ items0 = <<KeyZ, KeyB, KeyAB, KeyA>>
    /\ items = <<KeyZ, KeyA, KeyAB, KeyB>>
    /\ fieldOrder = (KeyA :> 2) @@ (KeyZ :> 2)

IsSuppressed(order, k) == k \in DOMAIN order /\ order[k] <= DisabledFieldWeight

\* C3: after the sorting function has run, no name whose weight is at or
\* below DisabledFieldWeight is left in the list, and every other name of
\* the input is in it as often as it was.
C3_SuppressedDropped ==
    pc = "sorted" =>
        /\ \A i \in 1..Len(items) : ~IsSuppressed(fieldOrder, items[i])
        /\ \A k \in Range(items0) :
              ~IsSuppressed(fieldOrder, k) => Count(items, k) = Count(items0, k)

\* C3, for the former SortingFuncDecorator that called dropDisabled
C3_SuppressedDroppedLegacy ==
    pc = "legacy" =>
        /\ \A i \in 1..Len(legacyItems) : ~IsSuppressed(fieldOrder, legacyItems[i])
        /\ \A k \in Range(items0) :
              ~IsSuppressed(fieldOrder, k) => Count(legacyItems, k) = Count(items0, k)

----------------------------------------------------------------------------
(* Properties of SD-NAME sanitization *)

\* SD-NAME of RFC5424: printable US-ASCII except '=', ']', '"' (and space)
SDNameBytes == (33..126) \ {34, 61, 93}

\* C7: every param name Append emits consists of SD-NAME bytes only; it has
\* the byte length of the field name, each SD-NAME byte of the field name
\* unchanged and '_' in the place of every other byte.
C7_ParamNamesAreSDNames ==
    \A i \in 1..Len(deParams) :
        LET out == deParams[i].Name
        IN  /\ Len(out) = Len(sdKey)
            /\ \A k \in 1..Len(out) :
                  /\ out[k] \in SDNameBytes
                  /\ out[k] = IF sdKey[k] \in SDNameBytes THEN sdKey[k] ELSE 95

\* a name with ']', a space and an allowed byte has been appended
C7_Witness ==
    /\ pc = "appended"
    /\ name = <<93, 97, 32>>
    /\ Len(deParams) = 1
    /\ deParams[1].Name = <<95, 97, 95>>

\* C8: sanitizing a sanitized name returns it unchanged.
C8_FixIdempotent ==
    /\ FixStructuredDataName(FixStructuredDataName(name)) = FixStructuredDataName(name)
    /\ pc = "appendedKey" => deParams[1].Name = sdKey

\* a request header name with two disallowed bytes was sanitized into a
\* field name, and that field name was appended as a param
C8_Witness ==
    /\ pc = "appendedKey"
    /\ name = <<32, 97, 61>>
    /\ sdKey = KeyPrefixRequest \o <<95, 97, 95>>
    /\ deParams[1].Name = sdKey

----------------------------------------------------------------------------
(* Properties of the logged entry *)

\* the frames captured by the outermost layer of the chain that has a stack
CapturedFrames ==
    IF \E i \in 1..Len(chain) : chain[i].tracer
    THEN chain[CHOOSE i \in 1..Len(chain) :
                   chain[i].tracer /\ \A k \in 1..(i - 1) : ~chain[k].tracer].stack
    ELSE <<>>

\* lines is the captured stack without its last skipLast frames, in the
\* captured order, and nothing if the stack has no more than skipLast frames
IsTruncatedStack(lines, skipLast) ==
    LET n == Len(CapturedFrames)
    IN  /\ Len(lines) = IF n <= skipLast THEN 0 ELSE n - skipLast
        /\ \A i \in 1..Len(lines) :
              /\ lines[i].line = CapturedFrames[i].line
              /\ lines[i].path = CapturedFrames[i].path
              /\ lines[i].function.name = CapturedFrames[i].function.name

\* the names under which the layers of the chain carry details
DetailKeysOf(err) == UNION {{err[i].details[j].key : j \in 1..Len(err[i].details)} : i \in 1..Len(err)}

\* C1: for an attached error with n captured frames, the call stack that
\* AdvancedFormatter.GetCallStack returns (seen in the problem body), that
\* the hook AppendCallStackToEntry puts under 'callstack' and that Format
\* prints as console block has no frame when n <= skipLast and is the first
\* n - skipLast frames in captured order otherwise.
C1_CallStackTruncated ==
    chain # NoError =>
        /\ (problem # NoProblem /\ HasFlag(logger.Flags, FlagCallStackInHTTPProblem)) =>
              IsTruncatedStack(problem.callstack, logger.CallStackSkipLast)
        /\ (pc \in {"callstack", "hooked"} /\ HasFlag(logger.Flags, FlagCallStackInFields)) =>
              IF Len(CapturedFrames) <= logger.CallStackSkipLast
              THEN Has(entry.Data, KeyCallStack) =>
                      KeyCallStack \in DOMAIN given \cup DetailKeysOf(chain)
              ELSE /\ Has(entry.Data, KeyCallStack)
                   /\ IsTruncatedStack(entry.Data[KeyCallStack].lines, logger.CallStackSkipLast)
        /\ (pc = "formatted" /\ HasFlag(logger.Flags, FlagCallStackOnConsole)) =>
              IsTruncatedStack(formatted.console, logger.CallStackSkipLast)

\* three captured frames and skipLast = 1: two frames in the field and on the console
C1_Witness ==
    /\ pc = "formatted"
    /\ chain = <<PlainLayer, Layer(<<>>, TRUE, StackOf(3))>>
    /\ logger.CallStackSkipLast = 1
    /\ logger.Flags = FlagCallStackInFields + FlagCallStackOnConsole
    /\ Len(formatted.console) = 2
    /\ formatted.console[2].line = 2
    /\ Has(entry.Data, KeyCallStack)
    /\ Len(entry.Data[KeyCallStack].lines) = 2

\* C5: for an entry without attached error (no 'error' key, or a value
\* under it that is not an error) GetError returns nil, GetCallStack
\* returns no line, the hooks AppendDetailsToEntry and
\* AppendCallStackToEntry leave entry.Data as it was, and no call stack is
\* printed or put into the problem body.
C5_NoErrorNothingExtracted ==
    chain = NoError =>
        /\ pc \in {"entry", "details", "callstack"} =>
              /\ GetError(entry.Data) = NoError
              /\ GetCallStack(entry.Data) = <<>>
              /\ entry.Data = given
        /\ pc = "formatted" => formatted.console = <<>>
        /\ problem # NoProblem => problem.callstack = <<>>

\* an entry whose 'error' field is a string went through both hooks of a
\* logger built with every flag
C5_Witness ==
    /\ pc = "callstack"
    /\ chain = NoError
    /\ logger.Flags = 15
    /\ logger.CallStackSkipLast = 0
    /\ given = (ErrorKey :> StringValue("not an error"))
    /\ entry.Data = given

\* the value of the outermost layer that carries details under k (the last
\* one, if that layer carries several)
OuterDetail(err, k) ==
    LET layer == CHOOSE i \in 1..Len(err) :
                     /\ \E j \in 1..Len(err[i].details) : err[i].details[j].key = k
                     /\ \A h \in 1..(i - 1) :
                           \A j \in 1..Len(err[h].details) : err[h].details[j].key # k
        d == err[layer].details
        last == CHOOSE j \in 1..Len(d) :
                    d[j].key = k /\ \A h \in (j + 1)..Len(d) : d[h].key # k
    IN  d[last].value

\* C6: the details that are flattened into the record hold, for every key
\* attached anywhere in the chain, the value of the outermost layer that
\* attached it; no key is lost.
C6_OuterLayerWins ==
    (chain # NoError /\ HasFlag(logger.Flags, FlagExtractDetails)) =>
        /\ pc = "details" =>
              \A k \in DetailKeysOf(chain) \ (DOMAIN given \cup {ErrorKey}) :
                  /\ Has(entry.Data, k)
                  /\ entry.Data[k] = OuterDetail(chain, k)
        /\ problem # NoProblem =>
              \A k \in DetailKeysOf(chain) \ ReservedNames :
                  /\ Has(problem.details, k)
                  /\ problem.details[k].val = OuterDetail(chain, k).val

\* outer details {a:1}, inner details {a:0, b:2}, flattened to {a:1, b:2}
C6_Witness ==
    /\ pc = "details"
    /\ chain = <<Layer(<<Detail(KeyA, "1")>>, FALSE, <<>>),
                 Layer(<<Detail(KeyA, "0"), Detail(KeyB, "2")>>, TRUE, StackOf(1))>>
    /\ given = EmptyMap
    /\ DOMAIN entry.Data = {ErrorKey, KeyA, KeyB}
    /\ entry.Data[KeyA] = StringValue("1")
    /\ entry.Data[KeyB] = StringValue("2")

\* the params of the 'details' element of a syslog message
DetailsParams ==
    IF formatted.kind = "syslog" THEN formatted.elements[1].params ELSE <<>>

ParamNames(params) == [i \in 1..Len(params) |-> params[i].Name]

\* a field the caller or a detail supplied under the name r that the
\* formatter gets to see (a field the caller names 'error' is the error
\* field of the record itself)
SuppliedValues(r) ==
    (IF r \in DOMAIN given /\ r # ErrorKey THEN {given[r]} ELSE {})
        \cup (IF HasFlag(logger.Flags, FlagExtractDetails) /\ chain # NoError
                 /\ r \in DetailKeysOf(chain) /\ r \notin DOMAIN given
              THEN {OuterDetail(chain, r)} ELSE {})

\* C4: in the syslog message and in the problem body a supplied field with
\* a reserved name (level, time, func, msg, file, error, callstack) is
\* output as 'fields.<name>' with its own value.
C4_ReservedNamesRenamed ==
    \A r \in ReservedNames : \A v \in SuppliedValues(r) :
        /\ (pc = "formatted" /\ formatted.kind = "syslog") =>
              \E i \in 1..Len(DetailsParams) :
                  /\ DetailsParams[i].Name = FieldsPrefix \o r
                  /\ DetailsParams[i].Value.val = v.val
        /\ problem # NoProblem =>
              /\ Has(problem.details, FieldsPrefix \o r)
              /\ problem.details[FieldsPrefix \o r].val = v.val

PositionsOf(s, x) == {i \in 1..Len(s) : s[i] = x}

\* the weights of the default field order
DefaultWeight(k) ==
    CASE k = FieldKeyLevel -> 100
      [] k = FieldKeyTime -> 90
      [] k = KeyHandlerFunc -> 81
      [] k = FieldKeyFunc -> 80
      [] k = ErrorKey -> 70
      [] k = FieldKeyMsg -> 60
      [] k = FieldKeyLogrusError -> 50
      [] k = FieldKeyFile -> 40
      [] k = KeyCallStack -> -10
      [] OTHER -> 0

DefaultBefore(a, b) ==
    \/ DefaultWeight(a) > DefaultWeight(b)
    \/ DefaultWeight(a) = DefaultWeight(b) /\ StrLess(a, b)

OutputNames ==
    IF formatted.kind = "text" THEN ParamNames(formatted.fields)
    ELSE IF Len(formatted.elements) = 2
         THEN ParamNames(formatted.elements[1].params) \o ParamNames(formatted.elements[2].params)
         ELSE ParamNames(DetailsParams)

LogrusFixedKeys ==
    <<FieldKeyLevel, FieldKeyTime, FieldKeyFunc, ErrorKey, FieldKeyMsg, FieldKeyFile>>

FixedKeySet == {LogrusFixedKeys[i] : i \in 1..Len(LogrusFixedKeys)}

\* the fixed keys that occur are in the order level, time, func, error,
\* msg, file and callstack, if it occurs, is the last name
FixedKeysInOrderCallStackLast(names) ==
    /\ \A a, b \in 1..Len(LogrusFixedKeys) : a < b =>
          \A i \in PositionsOf(names, LogrusFixedKeys[a]) :
              \A j \in PositionsOf(names, LogrusFixedKeys[b]) : i < j
    /\ PositionsOf(names, KeyCallStack) \subseteq {Len(names)}

AllParams ==
    IF Len(formatted.elements) = 2
    THEN formatted.elements[1].params \o formatted.elements[2].params
    ELSE DetailsParams

\* j is the JSON text of the value v, its double quotes stripped if trim
\* is set and the text is a quoted string
IsJSONOf(j, v, trim) ==
    /\ j.form = CASE v.kind \in {"string", "level"} -> "string"
                  [] v.kind = "int" -> "number"
                  [] v.kind = "bool" -> "bool"
                  [] v.kind = "lines" -> "array"
                  [] v.kind = "struct" -> "object"
                  [] OTHER -> "none"
    /\ j.val = v.val
    /\ j.lines = v.lines
    /\ j.dquote = (j.form = "string" /\ ~trim)

\* C13 as claimed: every field of the record is a param whose value is the
\* JSON text of the field value; quote-trimming strips the double quotes
\* of a JSON string and changes no other JSON text.
C13_ParamValueIsJSON ==
    (pc = "formatted" /\ formatted.kind = "syslog") =>
        /\ Len(AllParams) = Cardinality(DOMAIN entry.Data)
        /\ \A k \in DOMAIN entry.Data :
              \E i \in 1..Len(AllParams) :
                  /\ AllParams[i].Name = FixStructuredDataName(k)
                  /\ IsJSONOf(AllParams[i].Value, entry.Data[k],
                              HasFlag(logger.Flags, FlagTrimJSONDquote))

\* C13 as amended: the same for every value that can be marshalled; the
\* param of a value that cannot holds the message of the marshalling
\* error, with and without quote-trimming.
C13_ParamValueIsJSONOrErrorText ==
    (pc = "formatted" /\ formatted.kind = "syslog") =>
        /\ Len(AllParams) = Cardinality(DOMAIN entry.Data)
        /\ \A k \in DOMAIN entry.Data :
              \E i \in 1..Len(AllParams) :
                  /\ AllParams[i].Name = FixStructuredDataName(k)
                  /\ IF entry.Data[k].kind = "chan"
                     THEN AllParams[i].Value =
                              [form |-> "text", val |-> "json: unsupported type: chan int",
                               lines |-> <<>>, dquote |-> FALSE]
                     ELSE IsJSONOf(AllParams[i].Value, entry.Data[k],
                                   HasFlag(logger.Flags, FlagTrimJSONDquote))

\* K1="V1" and "K2 with space"="V2 value" without error and without
\* quote-trimming: param K2_with_space with the quoted string
C13_Witness ==
    /\ pc = "formatted"
    /\ formatted.kind = "syslog"
    /\ chain = NoError
    /\ logger.Flags = 0
    /\ given = (KeyK1 :> StringValue("V1")) @@ (KeyK2 :> StringValue("V2 value"))
    /\ ParamNames(DetailsParams) =
           <<FieldKeyLevel, KeyK1, <<75, 50, 95, 119, 105, 116, 104, 95, 115, 112, 97, 99, 101>>>>
    /\ DetailsParams[3].Value =
           [form |-> "string", val |-> "V2 value", lines |-> <<>>, dquote |-> TRUE]

\* C14: the problem body's title is the reason phrase of the status code and
\* its detail is the attached error's message, or the record's log message
\* when no error is attached (404, "not found", no error: detail "not found",
\* title "Not Found")
C14_TitleAndDetail ==
    (pc = "written" /\ ~Has(entry.Data, KeyHTTPProblemError)) =>
        /\ problem.status = handler.status
        /\ problem.title = StatusText(handler.status)
        /\ problem.detail = IF GetError(entry.Data) # NoError
                            THEN ErrorString(ErrorValue)
                            ELSE StringValue(entry.Message)

\* the key a field of the entry is found under in the problem's details
HTTPDetailsKey(k) == IF k \in Range(GetClashingFieldsHTTP) THEN FieldsPrefix \o k ELSE k

\* the field's value cannot be marshalled when the details are built
FailsToMarshal(f, v) ==
    JSONMarshalError(v) # "" /\ ~HasFlag(f.Flags, FlagPrintStructFieldNames)

\* C15: while the problem body is built, a field value that cannot be
\* marshalled does not abort the response: its entry in details is the
\* marshalling error's message, every other field is present with its own
\* marshalled value, and a problem body is produced
C15_FieldMarshalFailureKept ==
    (pc = "written" /\ ~Has(entry.Data, KeyHTTPProblemError)) =>
        /\ problem.status = handler.status
        /\ Len(response.calls) > 0
        /\ response.calls[Len(response.calls)].body = problem
        /\ \A k \in DOMAIN given :
              /\ Has(problem.details, HTTPDetailsKey(k))
              /\ problem.details[HTTPDetailsKey(k)] =
                    IF FailsToMarshal(logger, given[k])
                    THEN [form |-> "text", val |-> "json: unsupported type: chan int",
                          lines |-> <<>>, dquote |-> FALSE]
                    ELSE IF HasFlag(logger.Flags, FlagPrintStructFieldNames)
                    THEN JSONMarshal(RenderStructFieldNames(given)[k])
                    ELSE JSONMarshal(given[k])

C15_Witness ==
    /\ pc = "written"
    /\ ~Has(entry.Data, KeyHTTPProblemError)
    /\ Has(given, KeyC) /\ Has(given, KeyK1)
    /\ FailsToMarshal(logger, given[KeyC])
    /\ Has(problem.details, KeyC) /\ Has(problem.details, KeyK1)
    /\ problem.details[KeyC].val = "json: unsupported type: chan int"
    /\ problem.details[KeyK1].val = "V1"
    /\ problem.details[KeyK1].form = "string"

\* the generic problem RenderHTTPProblem falls back to
IsFallbackProblem(p, errText) ==
    /\ p.status = 500
    /\ p.title = "Internal Server Error"
    /\ p.detail = [kind |-> "string", val |-> errText, lines |-> <<>>]
    /\ p.details = EmptyMap
    /\ p.callstack = <<>>

\* the last call the response writer received
LastCall == response.calls[Len(response.calls)]

\* C16: if marshalling the complete problem document fails, the body written
\* is the generic HTTP-500 problem whose detail is the marshalling error's
\* text, and the entry carries that error under KeyHTTPProblemError; without
\* such a failure neither happens
C16_FallbackProblem ==
    (pc \in {"written", "served"} /\ problem # NoProblem) =>
        /\ LastCall.op = "Write" /\ LastCall.body = problem
        /\ IF problem.detail.val \in MarshalErrors \ {""}
           THEN /\ IsFallbackProblem(problem, problem.detail.val)
                /\ Has(entry.Data, KeyHTTPProblemError)
                /\ entry.Data[KeyHTTPProblemError] = problem.detail
           ELSE /\ ~Has(entry.Data, KeyHTTPProblemError)
                /\ problem.status = handler.status

C16_Witness ==
    /\ pc = "written"
    /\ handler.status = 404
    /\ Has(entry.Data, KeyHTTPProblemError)
    /\ IsFallbackProblem(problem, "json: error calling MarshalJSON")
    /\ LastCall.body = problem

\* an entry is the other entry, but for the two keys the response may add
SameEntryBut(e, e0) ==
    /\ e.Message = e0.Message /\ e.Level = e0.Level /\ e.HasCaller = e0.HasCaller
    /\ DOMAIN e0.Data \subseteq DOMAIN e.Data
    /\ DOMAIN e.Data \ DOMAIN e0.Data \subseteq {KeyHTTPProblemError, KeyHTTPWriteError}
    /\ \A k \in DOMAIN e0.Data : e.Data[k] = e0.Data[k]

\* the handler takes the problem path: the function returned an error or its
\* object cannot be marshalled
ProblemPath == pc = "request" /\ (handler.err \/ MarshalIndentError(handler.jsonObj) # "")

\* C17: every call of WriteHTTPProblem sets Content-Type to
\* application/problem+json, then writes the given status code once, then
\* writes the problem body once, and returns the entry it was given
C17_WriteOrder ==
    [][(pc = "call" \/ ProblemPath) =>
          /\ Len(response'.calls) = 3
          /\ response'.calls[1].op = "Header.Set"
          /\ response'.calls[1].text = "application/problem+json"
          /\ response'.header = "application/problem+json"
          /\ response'.calls[2].op = "WriteHeader"
          /\ response'.calls[2].status = handler.status
          /\ response'.calls[3].op = "Write"
          /\ response'.calls[3].body = problem' /\ problem' # NoProblem
          /\ pc = "call" => SameEntryBut(entry', entry)]_vars

\* C18: a failure of the response writer's Write, in WriteHTTPProblem and in
\* the success path of the handler, is not propagated: the call completes,
\* the error's message is on the entry under KeyHTTPWriteError, and the
\* handler hands that entry to the logger afterwards
C18_WriteFailureRecorded ==
    (pc \in {"written", "served"} /\ LastCall.op = "Write") =>
        /\ IF LastCall.err # ""
           THEN /\ Has(entry.Data, KeyHTTPWriteError)
                /\ entry.Data[KeyHTTPWriteError] =
                      [kind |-> "string", val |-> LastCall.err, lines |-> <<>>]
           ELSE ~Has(entry.Data, KeyHTTPWriteError)
        /\ pc = "written" => SameEntryBut(entry, [entry EXCEPT !.Data =
                                 IF chain # NoError THEN Put(given, ErrorKey, ErrorValue)
                                 ELSE given])
        /\ pc = "served" =>
              /\ Len(logged) = 1
              /\ logged[1].Data = entry.Data
              /\ logged[1].emitted = (LevelRank(logger.Level) >= LevelRank(logged[1].level))
              /\ (LastCall.err # "" /\ problem = NoProblem) =>
                    LevelRank(logged[1].level) <= LevelRank("error")

C18_Witness ==
    /\ pc = "served"
    /\ problem = NoProblem
    /\ LastCall.op = "Write" /\ LastCall.err = "write: broken pipe"
    /\ Len(logged) = 1
    /\ Has(logged[1].Data, KeyHTTPWriteError)
    /\ logged[1].level = "error" /\ logged[1].emitted
    /\ handler.status = 200

\* the names of the fields an output carries
FieldNames(out) == {out.fields[i].Name : i \in 1..Len(out.fields)}

\* C19: for an attached error whose stack has n frames and skipLast >= n,
\* every emitter treats the stack as absent for every flag combination:
\* Text, JSON and Syslog output no 'callstack' field and no console block,
\* Syslog has no element 'calls', and the problem body has no frame in its
\* callstack member and no 'callstack' entry in details
C19_ShortStackAbsent ==
    (chain # NoError /\ (\E i \in 1..Len(chain) : chain[i].tracer)
        /\ Len(CapturedFrames) >= 1
        /\ Len(CapturedFrames) <= logger.CallStackSkipLast
        /\ KeyCallStack \notin DOMAIN given \cup DetailKeysOf(chain)) =>
        /\ pc = "formatted" =>
              /\ ~Has(entry.Data, KeyCallStack)
              /\ KeyCallStack \notin FieldNames(formatted)
              /\ formatted.console = <<>>
              /\ \A i \in 1..Len(formatted.elements) :
                    /\ formatted.elements[i].id # StructuredIDCallStack
                    /\ \A j \in 1..Len(formatted.elements[i].params) :
                          formatted.elements[i].params[j].Name # KeyCallStack
        /\ problem # NoProblem =>
              /\ problem.callstack = <<>>
              /\ ~Has(problem.details, KeyCallStack)

\* C20: value rendering is idempotent: applied to data it has already
\* rendered, RenderStructFieldNames, RenderErrorInEntry and RenderFieldValues
\* change nothing; a value the first pass changes has become a string, and
\* strings and numeric values are not changed
C20_RenderingIdempotent ==
    /\ (pc = "hooked" /\ HasFlag(logger.Flags, FlagPrintStructFieldNames)) =>
          RenderStructFieldNames(entry.Data) = entry.Data
    /\ pc = "formatted" => RenderErrorInEntry(entry.Data) = entry.Data
    /\ LET once == RenderFieldValues(logger, entry.Data)
       IN  /\ RenderFieldValues(logger, once) = once
           /\ \A k \in DOMAIN entry.Data :
                 /\ once[k] # entry.Data[k] => once[k].kind = "string"
                 /\ (entry.Data[k].kind = "string" \/ IsNumeric(entry.Data[k])) =>
                       once[k] = entry.Data[k]

C20_Witness ==
    /\ pc = "formatted"
    /\ HasFlag(logger.Flags, FlagPrintStructFieldNames)
    /\ Has(given, KeyS) /\ given[KeyS].kind = "struct"
    /\ Has(entry.Data, KeyS) /\ Has(entry.Data, ErrorKey)
    /\ entry.Data[KeyS] = [kind |-> "string", val |-> "%+v {x:1}", lines |-> <<>>]
    /\ entry.Data[ErrorKey] = [kind |-> "string", val |-> "Error: err", lines |-> <<>>]

\* the number of frames that remain for the console block
ConsoleFrames ==
    IF HasFlag(logger.Flags, FlagCallStackOnConsole) /\ chain # NoError
          /\ Len(CapturedFrames) > logger.CallStackSkipLast
    THEN Len(CapturedFrames) - logger.CallStackSkipLast
    ELSE 0

\* C21: with a call stack requested for the console and r > 0 frames left
\* after truncation, the Text output is the formatted line with exactly one
\* newline, then for each frame in order a tab, the frame and a newline;
\* with no frame left it is the formatted line unchanged
C21_ConsoleBlockLayout ==
    (pc = "formatted" /\ formatted.kind = "text") =>
        /\ Len(formatted.text) = 2 + 3 * ConsoleFrames
        /\ formatted.text[1].kind = "fields"
        /\ formatted.text[2].kind = "nl"
        /\ \A i \in 1..ConsoleFrames :
              /\ formatted.text[3 * i].kind = "tab"
              /\ formatted.text[3 * i + 1].kind = "frame"
              /\ formatted.text[3 * i + 1].frame[1].line = CapturedFrames[i].line
              /\ formatted.text[3 * i + 1].frame[1].path = CapturedFrames[i].path
              /\ formatted.text[3 * i + 2].kind = "nl"

C21_Witness ==
    /\ pc = "formatted" /\ formatted.kind = "text"
    /\ HasFlag(logger.Flags, FlagCallStackOnConsole)
    /\ Len(CapturedFrames) = 3 /\ logger.CallStackSkipLast = 1
    /\ Len(formatted.text) = 8
    /\ formatted.text[7].kind = "frame" /\ formatted.text[7].frame[1].line = 2
    /\ formatted.text[8].kind = "nl"

\* C22: every call of the problem builder produces a problem body and does
\* not panic, for every status code and every entry, also when the logger's
\* formatter is not one of the advanced formatters
C22_NeverPanics ==
    (pc \in {"written", "panic"} \/ (pc = "served" /\ logged # <<>> /\ problem # NoProblem)) =>
        /\ pc # "panic"
        /\ LastCall.op = "Write"
        /\ LastCall.body = problem
        /\ problem.status \in {handler.status, 500}

\* the calls of one kind the response writer has received
CallsOf(op) == {i \in 1..Len(response.calls) : response.calls[i].op = op}

\* C23: for every request whose wrapped handler returns an error, the
\* handler of HTTPHandlerWithError overwrites Content-Type with
\* application/problem+json, calls WriteHeader once with the returned status,
\* sends a problem body, and then logs the entry once, at the level mapped
\* from status/100 (Trace when unmapped)
C23_ErrorPathResponse ==
    (pc \in {"served", "panic"} /\ handler.err) =>
        /\ pc = "served"
        /\ response.header = "application/problem+json"
        /\ \E i \in CallsOf("WriteHeader") :
              /\ CallsOf("WriteHeader") = {i}
              /\ response.calls[i].status = handler.status
        /\ CallsOf("Write") = {Len(response.calls)}
        /\ LastCall.body = problem /\ problem # NoProblem
        /\ Len(logged) = 1
        /\ logged[1].Data = entry.Data
        /\ logged[1].level = IF (handler.status \div 100) \in DOMAIN handler.levelByStatus
                             THEN handler.levelByStatus[handler.status \div 100]
                             ELSE "trace"

\* the entry as it was handed to the logger
GivenEntry ==
    [entry EXCEPT !.Data = IF chain # NoError THEN Put(given, ErrorKey, ErrorValue)
                           ELSE given]

\* entry.Data after the hooks a logger built with the flags of lg has registered
HookedData(lg, data) ==
    LET detailed == IF HasFlag(lg.Flags, FlagExtractDetails)
                    THEN AppendDetailsToEntry(data) ELSE data
        stacked == IF HasFlag(lg.Flags, FlagCallStackInFields)
                   THEN AppendCallStackToEntry(lg.CallStackSkipLast, detailed) ELSE detailed
    IN  IF HasFlag(lg.Flags, FlagPrintStructFieldNames)
        THEN RenderStructFieldNames(stacked) ELSE stacked

\* the fields the JSON logger lg writes for the entry e
JSONOutputOf(lg, e) ==
    JSONFormatterFormat([e EXCEPT !.Data = RenderErrorInEntry(HookedData(lg, e.Data))])

\* the structured data the Syslog logger lg writes for the entry e
SyslogOutputOf(lg, e) ==
    LET hooked == [e EXCEPT !.Data = HookedData(lg, e.Data)]
        data == RenderErrorInEntry(PrepareFields(hooked, GetClashingFieldsSyslog))
    IN  SyslogMessage(lg, hooked, data, SortedKeys(DOMAIN data \ {KeyCallStack}), <<>>).elements

\* the logger built without FlagPrintStructFieldNames
WithoutPrintStruct(lg) ==
    IF HasFlag(lg.Flags, FlagPrintStructFieldNames)
    THEN [lg EXCEPT !.Flags = @ - FlagPrintStructFieldNames]
    ELSE lg

\* C24: FlagPrintStructFieldNames has no effect on the JSON and the Syslog
\* logger: what they write for an entry is what the same logger built
\* without the flag writes for it
C24_PrintStructOnlyText ==
    (pc = "formatted" /\ HasFlag(logger.Flags, FlagPrintStructFieldNames)) =>
        /\ formatted.kind = "json" =>
              formatted.fields = JSONOutputOf(WithoutPrintStruct(logger), GivenEntry)
        /\ formatted.kind = "syslog" =>
              formatted.elements = SyslogOutputOf(WithoutPrintStruct(logger), GivenEntry)

\* C25: every entry emitted while a request is handled carries the req_*
\* fields of that request alone: exactly the fields appendRequestInfo takes
\* from it, with its values
C25_OwnRequestInfo ==
    \A i \in 1..Len(reqLog) :
        reqLog[i].Data = appendRequestInfo(Put(EmptyMap, KeyField, StringValue("VALUE")),
                                           requests[reqLog[i].req],
                                           DefaultSelectedRequestInfo)

\* C26: a key present both as a field of the entry and as a detail of the
\* attached error keeps the field's value through AppendDetailsToEntry, and
\* the problem body built from the entry shows that same value for it
C26_ClashResolvedAlike ==
    (/\ pc = "details"
     /\ problem # NoProblem
     /\ HasFlag(logger.Flags, FlagExtractDetails)
     /\ chain # NoError) =>
        \A k \in (DOMAIN given \cap DOMAIN ToMap(GetDetails(chain))) \ ReservedNames :
            /\ entry.Data[k] = given[k]
            /\ problem.details[HTTPDetailsKey(k)] = JSONMarshal(entry.Data[k])

\* C27: within one log call the value under "error" stays the error through
\* the three hooks and until Format has read the console call stack; after
\* Format it is the error's string, and GetError and GetCallStack on the
\* entry yield nothing
C27_ErrorKeptUntilRendered ==
    chain # NoError =>
        /\ pc \in {"entry", "details", "callstack", "hooked"} =>
              /\ entry.Data[ErrorKey] = ErrorValue
              /\ GetError(entry.Data) = chain
        /\ pc = "formatted" =>
              /\ entry.Data[ErrorKey] = ErrorString(ErrorValue)
              /\ GetError(entry.Data) = NoError
              /\ GetCallStack(entry.Data) = <<>>
              /\ HasFlag(logger.Flags, FlagCallStackOnConsole) =>
                    formatted.console = ConsoleBlock(GetCallStack(GivenEntry.Data),
                                                     logger.CallStackSkipLast)

C27_Witness ==
    /\ pc = "formatted"
    /\ chain # NoError
    /\ HasFlag(logger.Flags, FlagCallStackOnConsole)
    /\ formatted.console # <<>>
    /\ entry.Data[ErrorKey].kind = "string"

\* the field part of the lines the Text logger lg may write for the entry e,
\* one for every order in which logrus may visit the unsorted keys
TextOutputsOf(lg, e) ==
    LET rendered == [e EXCEPT !.Data = RenderErrorInEntry(HookedData(lg, e.Data))]
    IN  {TextFormatterFormat(rendered, keys) : keys \in Perms(TextDataKeys(rendered))}

\* the console call stack block the logger lg appends for the entry e
ConsoleOutputOf(lg, e) ==
    IF HasFlag(lg.Flags, FlagCallStackOnConsole)
    THEN ConsoleBlock(GetCallStack(HookedData(lg, e.Data)), lg.CallStackSkipLast)
    ELSE <<>>

\* C28: logging is repeatable: logging the entry a second time, as the first
\* log call left it, yields the field names and values and the call stack
\* of the first time
C28_LoggingRepeatable ==
    (pc = "formatted" /\ chain # NoError) =>
        /\ formatted.console = ConsoleOutputOf(logger, entry)
        /\ formatted.kind = "text" => formatted.fields \in TextOutputsOf(logger, entry)
        /\ formatted.kind = "json" => formatted.fields = JSONOutputOf(logger, entry)
        /\ formatted.kind = "syslog" => formatted.elements = SyslogOutputOf(logger, entry)

WrittenStatuses == {response.calls[i].status : i \in CallsOf("WriteHeader")}

\* C30: provided the wrapped handler returns a status >= 400 with every
\* error, a response sent as application/problem+json carries a status
\* >= 400 and a body whose status member is the status written, and a 2xx
\* status is sent only together with the handler's own JSON body
C30_ProblemStatus ==
    (/\ pc \in {"served", "panic"}
     /\ handler.jsonObj # ""
     /\ handler.err => handler.status >= 400) =>
        /\ response.header = ContentTypeProblem =>
              /\ \A s \in WrittenStatuses : s >= 400
              /\ \A i \in CallsOf("Write") : \A s \in WrittenStatuses :
                    response.calls[i].body.status = s
        /\ (\E s \in WrittenStatuses : s \in 200..299) =>
              /\ response.header # ContentTypeProblem
              /\ \A i \in CallsOf("Write") :
                    /\ response.calls[i].text = handler.jsonObj
                    /\ response.calls[i].body = NoProblem

====
